---- MODULE Spec2Model ----
(***************************************************************************)
(* Model of the unified broker-integration layer of copytrader-backend:    *)
(* the connector registry (BrokerFactory), the four exchange connectors    *)
(* (Delta, Binance Futures, Bybit, OKX) with their WebSocket stream and    *)
(* REST operations, the rate limiter and the error helper of BaseBroker.   *)
(*                                                                         *)
(* Thirteen specifications over one set of variables:                      *)
(*   Spec      registry + connector lifecycle + stream events, with the    *)
(*             asynchronous calls cut at their await points;               *)
(*   SpecKeys  the registry alone, over every key derivation;              *)
(*   SpecRest  the unified REST operations of one connector;               *)
(*   SpecMap   the pure status normalisation mapOrderStatus;               *)
(*   SpecRows  the normalisation of balance and position rows;             *)
(*   SpecMessages  the 'message' handler of a connector's stream;          *)
(*   SpecOrders  the parameters placeOrder builds from an order;           *)
(*   SpecLimiter  checkRateLimit by the keys of its map;                   *)
(*   SpecHealth  healthCheckAll with the cache changing under it.          *)
(*   SpecRegistry  Spec for callers that use the registry only;            *)
(*   SpecLive  Spec with the fairness of the event loop;                   *)
(*   SpecErrors  the pure classification handleError;                      *)
(*   SpecAccounts  the accounts routes over the registry.                  *)
(***************************************************************************)
EXTENDS Integers, Sequences, FiniteSets, Bags, TLC

(***************************************************************************)
(* Bounds of the model.                                                    *)
(***************************************************************************)
\* connector instances constructed in one behaviour
MaxBrokers == 2
\* WebSocket objects created in one behaviour
MaxSockets == 2
\* asynchronous calls in flight at the same time
MaxTasks == 2
\* calls callers make on the registry and on the connectors in one behaviour
MaxCalls == 3
\* half rate-limit windows the clock advances in one behaviour
MaxTicks == 2
\* largest amount (balance, position size) of a native row, in units of the smallest amount
MaxAmount == 2
\* rows in one answer of the exchange
MaxRows == 2
\* texts received on one stream in one behaviour
MaxMessages == 3
\* rate-limit windows the clock of the limiter passes in one behaviour
MaxWindows == 3

(***************************************************************************)
(* Strings.  A string is a sequence of tokens; API keys and status strings *)
(* are sequences of one-character strings, so that substring and           *)
(* toLowerCase are computed and not assumed.                               *)
(***************************************************************************)
Min(a, b) == IF a < b THEN a ELSE b

\* String.prototype.substring(0, n)
Substring0(s, n) == SubSeq(s, 1, Min(Len(s), n))

\* number of API-key characters that go into a derived registry key
KeyPrefixLen == 8

KeyA1 == <<"A","A","A","A","A","A","A","A","1","1">>
KeyA2 == <<"A","A","A","A","A","A","A","A","2","2">>
KeyB1 == <<"B","B","B","B","B","B","B","B","1","1">>

\* an absent (undefined) or empty instanceId: both are falsy in `instanceId || ...`
NoInstanceId == << >>
Acct1 == <<"acct1">>

SupportedBrokers == {"DELTA", "BINANCE", "BYBIT", "OKX"}

\* the (brokerType, credentials, instanceId?) triples callers pass to the registry
RegistryInputs ==
  { [brokerType |-> "BYBIT",   apiKey |-> KeyA1, instanceId |-> NoInstanceId],
    [brokerType |-> "BYBIT",   apiKey |-> KeyA2, instanceId |-> NoInstanceId],
    [brokerType |-> "BINANCE", apiKey |-> KeyB1, instanceId |-> NoInstanceId],
    [brokerType |-> "DELTA",   apiKey |-> KeyB1, instanceId |-> Acct1],
    [brokerType |-> "OKX",     apiKey |-> KeyA1, instanceId |-> Acct1],
    [brokerType |-> "KRAKEN",  apiKey |-> KeyB1, instanceId |-> Acct1] }

\* const key = instanceId || `${brokerType}_${credentials.apiKey.substring(0, 8)}`
KeyOf(in) ==
  IF in.instanceId # NoInstanceId
    THEN in.instanceId
    ELSE <<in.brokerType, "_">> \o Substring0(in.apiKey, KeyPrefixLen)

AllKeys == { KeyOf(in) : in \in RegistryInputs }

\* the triples of the concurrent scenarios: two keys and an unsupported exchange type
ConcurrentInputs ==
  { [brokerType |-> "BYBIT",  apiKey |-> KeyA1, instanceId |-> NoInstanceId],
    [brokerType |-> "DELTA",  apiKey |-> KeyB1, instanceId |-> Acct1],
    [brokerType |-> "KRAKEN", apiKey |-> KeyB1, instanceId |-> Acct1] }
ConcurrentKeys == { KeyOf(in) : in \in ConcurrentInputs }

(***************************************************************************)
(* Exchange-native status strings, character by character.                 *)
(***************************************************************************)
Str_open == <<"o", "p", "e", "n">>
Str_pending == <<"p", "e", "n", "d", "i", "n", "g">>
Str_filled == <<"f", "i", "l", "l", "e", "d">>
Str_closed == <<"c", "l", "o", "s", "e", "d">>
Str_cancelled == <<"c", "a", "n", "c", "e", "l", "l", "e", "d">>
Str_rejected == <<"r", "e", "j", "e", "c", "t", "e", "d">>
Str_NEW == <<"N", "E", "W">>
Str_PARTIALLY_FILLED == <<"P", "A", "R", "T", "I", "A", "L", "L", "Y", "_", "F", "I", "L", "L", "E", "D">>
Str_FILLED == <<"F", "I", "L", "L", "E", "D">>
Str_CANCELED == <<"C", "A", "N", "C", "E", "L", "E", "D">>
Str_EXPIRED == <<"E", "X", "P", "I", "R", "E", "D">>
Str_REJECTED == <<"R", "E", "J", "E", "C", "T", "E", "D">>
Str_New == <<"N", "e", "w">>
Str_PartiallyFilled == <<"P", "a", "r", "t", "i", "a", "l", "l", "y", "F", "i", "l", "l", "e", "d">>
Str_Filled == <<"F", "i", "l", "l", "e", "d">>
Str_Cancelled == <<"C", "a", "n", "c", "e", "l", "l", "e", "d">>
Str_Rejected == <<"R", "e", "j", "e", "c", "t", "e", "d">>
Str_Deactivated == <<"D", "e", "a", "c", "t", "i", "v", "a", "t", "e", "d">>
Str_live == <<"l", "i", "v", "e">>
Str_partially_filled == <<"p", "a", "r", "t", "i", "a", "l", "l", "y", "_", "f", "i", "l", "l", "e", "d">>
Str_canceled == <<"c", "a", "n", "c", "e", "l", "e", "d">>
Str_CLOSED == <<"C", "L", "O", "S", "E", "D">>
Str_Open == <<"O", "p", "e", "n">>
Str_expired == <<"e", "x", "p", "i", "r", "e", "d">>
Str_untriggered == <<"u", "n", "t", "r", "i", "g", "g", "e", "r", "e", "d">>
Str_0 == <<"0">>
\* the empty string
Str_empty == << >>
\* position sides
Str_long == <<"l", "o", "n", "g">>
Str_short == <<"s", "h", "o", "r", "t">>
Str_net == <<"n", "e", "t">>
Str_Buy == <<"B", "u", "y">>
Str_Sell == <<"S", "e", "l", "l">>

UpperCase == <<"A", "B", "C", "D", "E", "F", "G", "H", "I", "J", "K", "L", "M", "N", "O", "P", "Q", "R", "S", "T", "U", "V", "W", "X", "Y", "Z">>
LowerCase == <<"a", "b", "c", "d", "e", "f", "g", "h", "i", "j", "k", "l", "m", "n", "o", "p", "q", "r", "s", "t", "u", "v", "w", "x", "y", "z">>

\* String.prototype.toLowerCase()
LowerChar(c) ==
  IF \E i \in 1..Len(UpperCase) : UpperCase[i] = c
    THEN LowerCase[CHOOSE i \in 1..Len(UpperCase) : UpperCase[i] = c]
    ELSE c
ToLowerCase(str) == [i \in 1..Len(str) |-> LowerChar(str[i])]

\* DeltaExchangeBroker.mapOrderStatus: switch (state.toLowerCase())
DeltaMapOrderStatus(state) ==
  LET lower == ToLowerCase(state)
  IN IF lower \in {Str_open, Str_pending} THEN "pending"
     ELSE IF lower \in {Str_filled, Str_closed} THEN "filled"
     ELSE IF lower = Str_cancelled THEN "cancelled"
     ELSE IF lower = Str_rejected THEN "rejected"
     ELSE "pending"

\* BinanceFuturesBroker.mapOrderStatus: switch (status)
BinanceMapOrderStatus(status) ==
  IF status \in {Str_NEW, Str_PARTIALLY_FILLED} THEN "pending"
  ELSE IF status = Str_FILLED THEN "filled"
  ELSE IF status \in {Str_CANCELED, Str_EXPIRED} THEN "cancelled"
  ELSE IF status = Str_REJECTED THEN "rejected"
  ELSE "pending"

\* a Bybit mapping that keeps a native Rejected as rejected
BybitMapRejected(status) ==
  IF status \in {Str_New, Str_PartiallyFilled} THEN "pending"
  ELSE IF status = Str_Filled THEN "filled"
  ELSE IF status = Str_Cancelled THEN "cancelled"
  ELSE IF status \in {Str_Rejected, Str_Deactivated} THEN "rejected"
  ELSE "pending"

\* BybitBroker.mapOrderStatus: switch (status)
BybitMapOrderStatus(status) ==
  IF status \in {Str_New, Str_PartiallyFilled} THEN "pending"
  ELSE IF status = Str_Filled THEN "filled"
  ELSE IF status \in {Str_Cancelled, Str_Rejected} THEN "cancelled"
  ELSE IF status = Str_Deactivated THEN "rejected"
  ELSE "pending"

\* OKXBroker.mapOrderStatus: switch (state)
OKXMapOrderStatus(state) ==
  IF state \in {Str_live, Str_partially_filled} THEN "pending"
  ELSE IF state = Str_filled THEN "filled"
  ELSE IF state = Str_canceled THEN "cancelled"
  ELSE IF state = Str_rejected THEN "rejected"
  ELSE "pending"

\* mapOrderStatus of the connector of an exchange type
MapOrderStatus(type, str) ==
  CASE type = "DELTA"   -> DeltaMapOrderStatus(str)
    [] type = "BINANCE" -> BinanceMapOrderStatus(str)
    [] type = "BYBIT"   -> BybitMapOrderStatus(str)
    [] type = "OKX"     -> OKXMapOrderStatus(str)

\* the native status vocabulary of each exchange
DeltaStatuses == {Str_open, Str_pending, Str_filled, Str_closed, Str_cancelled, Str_rejected}
BinanceStatuses == {Str_NEW, Str_PARTIALLY_FILLED, Str_FILLED, Str_CANCELED, Str_EXPIRED, Str_REJECTED}
BybitStatuses == {Str_New, Str_PartiallyFilled, Str_Filled, Str_Cancelled, Str_Rejected, Str_Deactivated}
OKXStatuses == {Str_live, Str_partially_filled, Str_filled, Str_canceled, Str_rejected}
NativeStatuses(type) ==
  CASE type = "DELTA"   -> DeltaStatuses
    [] type = "BINANCE" -> BinanceStatuses
    [] type = "BYBIT"   -> BybitStatuses
    [] type = "OKX"     -> OKXStatuses

\* the strings mapOrderStatus is applied to: every exchange's vocabulary (a string of one
\* exchange is an unknown string for another), other spellings and unknown strings
StatusStrings ==
  DeltaStatuses \cup BinanceStatuses \cup BybitStatuses \cup OKXStatuses
    \cup {Str_CLOSED, Str_Open, Str_expired, Str_untriggered, Str_0, Str_empty}

(***************************************************************************)
(* REST responses and errors.  A response is what the axios call settles   *)
(* with: a 2xx answer carrying the exchange's application-level success    *)
(* flag, or a failure carrying an HTTP status and/or a transport code.     *)
(***************************************************************************)
NoStatus == 0

\* a 2xx answer: `flag` is the application-level success flag of the body (Delta success,
\* Bybit retCode === 0, OKX code === '0', Binance canTrade), `native` the native order
\* status of the body (Delta state, Binance status, Bybit orderStatus, OKX state), `sCode`
\* the per-order code of an OKX acknowledgment
HttpOk(flag) ==
  [kind |-> "ok", status |-> 200, flag |-> flag, native |-> Str_empty, sCode |-> Str_0]
OrderAnswer(flag, native) == [HttpOk(flag) EXCEPT !.native = native]
HttpFail(status, code, message) ==
  [kind |-> "fail", status |-> status, code |-> code, message |-> message]

Failures ==
  { HttpFail(401, "ERR_BAD_REQUEST", "Request failed with status code 401"),
    HttpFail(429, "ERR_BAD_REQUEST", "Request failed with status code 429"),
    HttpFail(400, "ERR_BAD_REQUEST", "Request failed with status code 400"),
    HttpFail(500, "ERR_BAD_RESPONSE", "Request failed with status code 500"),
    HttpFail(503, "ERR_BAD_RESPONSE", "Request failed with status code 503"),
    HttpFail(NoStatus, "ECONNREFUSED", "connect ECONNREFUSED"),
    HttpFail(NoStatus, "ETIMEDOUT", "connect ETIMEDOUT"),
    HttpFail(NoStatus, "ECONNABORTED", "timeout of 10000ms exceeded") }

\* what the exchange can answer to a request of a connector of the type
Answers(type) ==
  Failures \cup { OrderAnswer(flag, native) : flag \in BOOLEAN, native \in NativeStatuses(type) }

\* an Error object as handleError reads it: response?.status, code, message
Err(status, code, message) == [status |-> status, code |-> code, message |-> message]
ErrorOf(resp) == Err(resp.status, resp.code, resp.message)
\* new Error(message): no response, no code
NewError(message) == Err(NoStatus, "none", message)

\* a classification that looks at the transport code before the HTTP status
HandleErrorCodeFirst(error) ==
  IF error.code = "ECONNREFUSED" THEN NewError("Connection refused by broker")
  ELSE IF error.code = "ETIMEDOUT" THEN NewError("Request timeout")
  ELSE IF error.status = 401 THEN NewError("Invalid API credentials")
  ELSE IF error.status = 429 THEN NewError("Rate limit exceeded")
  ELSE IF error.status >= 500 THEN NewError("Broker service unavailable")
  ELSE NewError(IF error.message # "" THEN error.message ELSE "Unknown broker error")

\* BaseBroker.handleError
HandleError(error) ==
  IF error.status = 401 THEN NewError("Invalid API credentials")
  ELSE IF error.status = 429 THEN NewError("Rate limit exceeded")
  ELSE IF error.status >= 500 THEN NewError("Broker service unavailable")
  ELSE IF error.code = "ECONNREFUSED" THEN NewError("Connection refused by broker")
  ELSE IF error.code = "ETIMEDOUT" THEN NewError("Request timeout")
  ELSE NewError(IF error.message # "" THEN error.message ELSE "Unknown broker error")

\* the response interceptor of every connector: (error) => { throw this.handleError(error, ...) }
Intercept(resp) == HandleError(ErrorOf(resp))

\* how an async function settles
Return(v) == [kind |-> "return", value |-> v, error |-> NewError("")]
Throw(e)  == [kind |-> "throw", value |-> FALSE, error |-> e]

Operations ==
  { "validateCredentials", "getAccountBalance", "getPositions",
    "placeOrder", "cancelOrder", "getOrderStatus" }

\* the endpoint name and the limit an operation passes to checkRateLimit
Endpoint(op) ==
  CASE op = "validateCredentials" -> "validate"
    [] op = "getAccountBalance"   -> "balance"
    [] op = "getPositions"        -> "positions"
    [] op = "placeOrder"          -> "order"
    [] op = "cancelOrder"         -> "cancel"
    [] op = "getOrderStatus"      -> "order_status"
QueryLimit == 10
OrderLimit == 20
WindowMs == 60000
Limit(op) == IF op \in {"placeOrder", "cancelOrder"} THEN OrderLimit ELSE QueryLimit

\* a catch clause that turns every error into a normal result
CatchSwallows(op, e) == Return(FALSE)

\* the catch clause of an operation: validateCredentials logs and returns false,
\* every other operation does `throw this.handleError(error, ...)`
CatchClause(op, e) ==
  IF op = "validateCredentials" THEN Return(FALSE) ELSE Throw(HandleError(e))

\* the body of the try block of validateCredentials once the request settled with a 2xx
\* answer: Delta `status === 200 && data.success`, Binance `status === 200 && data.canTrade`,
\* Bybit `data.retCode === 0`, OKX `data.code === '0'`
ValidateOk(type, resp) ==
  IF type \in {"DELTA", "BINANCE"} THEN resp.status = 200 /\ resp.flag ELSE resp.flag

\* the connectors that check the success flag of the body before they read its data
ChecksFlag(type) == type \in {"DELTA", "BYBIT", "OKX"}

\* the TradeResult placeOrder builds from the acknowledgment, by its status
PlacedStatus(type, resp) ==
  CASE type = "DELTA"   -> DeltaMapOrderStatus(resp.native)
    [] type = "BINANCE" -> BinanceMapOrderStatus(resp.native)
    [] type = "BYBIT"   -> "pending"
    [] type = "OKX"     -> OKXMapOrderStatus(resp.sCode)

\* the rest of the try block of an operation once its request settled with a 2xx answer
TryBody(type, op, resp) ==
  CASE op = "validateCredentials" -> Return(ValidateOk(type, resp))
    [] op = "getAccountBalance" ->
         IF ChecksFlag(type) /\ ~resp.flag THEN Throw(NewError("Failed to fetch balance"))
         ELSE Return("list")
    [] op = "getPositions" ->
         IF ChecksFlag(type) /\ ~resp.flag THEN Throw(NewError("Failed to fetch positions"))
         ELSE Return("list")
    [] op = "placeOrder" ->
         IF ChecksFlag(type) /\ ~resp.flag THEN Throw(NewError("Order placement failed"))
         ELSE Return([status |-> PlacedStatus(type, resp)])
    [] op = "cancelOrder" ->
         IF type = "BINANCE" THEN Return(resp.native = Str_CANCELED) ELSE Return(resp.flag)
    [] op = "getOrderStatus" ->
         IF ChecksFlag(type) /\ ~resp.flag THEN Throw(NewError("Failed to fetch order status"))
         ELSE Return([status |-> MapOrderStatus(type, resp.native)])

\* an operation from the settlement of its request to its own settlement: a failed request
\* is rejected by the response interceptor and lands in the operation's catch clause
Complete(type, op, resp) ==
  IF resp.kind = "fail" THEN CatchClause(op, Intercept(resp))
  ELSE IF TryBody(type, op, resp).kind = "throw"
         THEN CatchClause(op, TryBody(type, op, resp).error)
         ELSE TryBody(type, op, resp)

\* an operation the rate limiter denies: throw new Error('Rate limit exceeded') inside try
Denied(op) == CatchClause(op, NewError("Rate limit exceeded"))

\* validateCredentials as connect() awaits it
ValidateCredentials(type, admitted, resp) ==
  IF admitted THEN Complete(type, "validateCredentials", resp)
  ELSE Denied("validateCredentials")

\* DeltaExchangeBroker.getProductId once its request settled: the product id, or an error
\* that went through handleError in its catch clause; `flag` says whether the product list
\* holds the symbol
GetProductId(resp) ==
  IF resp.kind = "fail" THEN Throw(HandleError(Intercept(resp)))
  ELSE IF ~resp.flag THEN Throw(HandleError(NewError("Product not found for symbol")))
  ELSE Return(TRUE)

\* the operations that look the product id up before their own request
NeedsProductId(type, op) == type = "DELTA" /\ op \in {"placeOrder", "cancelOrder"}

(***************************************************************************)
(* Wallet and position rows.  An amount is what parseFloat gives for the   *)
(* native field, counted in units of the smallest amount.                  *)
(***************************************************************************)
Abs(x) == IF x < 0 THEN -x ELSE x

\* a native wallet row: `total` is the wallet balance (Delta wallet_balance, Binance
\* balance, Bybit walletBalance, OKX bal), `avail` the available balance, `margin` Delta's
\* order_margin; what is neither available nor order margin is held for positions
WalletRows ==
  { row \in [total : 0..MaxAmount, avail : 0..MaxAmount, margin : 0..MaxAmount] :
      row.avail + row.margin <= row.total }

\* the AccountBalance a connector builds from a native wallet row
Balance(type, row) ==
  IF type = "DELTA"
    THEN [free |-> row.avail, locked |-> row.margin, total |-> row.total]
    ELSE [free |-> row.avail, locked |-> row.total - row.avail, total |-> row.total]

\* the rows getAccountBalance keeps: Binance, Bybit and OKX filter on a balance > 0,
\* Delta maps every row
KeepsBalance(type, row) == type = "DELTA" \/ row.total > 0

\* the try block of getAccountBalance on the rows of a 2xx answer
GetAccountBalance(type, rows) ==
  LET kept == SelectSeq(rows, LAMBDA row : KeepsBalance(type, row))
  IN [i \in 1..Len(kept) |-> Balance(type, kept[i])]

\* a native position row: Delta size and Binance positionAmt are signed and carry no side;
\* Bybit size is unsigned with a side Buy or Sell (empty on a flat row); OKX pos is signed
\* with posSide net, or unsigned with posSide long or short
PositionRows(type) ==
  CASE type \in {"DELTA", "BINANCE"} ->
         { [size |-> n, side |-> Str_empty] : n \in -MaxAmount..MaxAmount }
    [] type = "BYBIT" ->
         { [size |-> n, side |-> sd] : n \in 1..MaxAmount, sd \in {Str_Buy, Str_Sell} }
           \cup { [size |-> 0, side |-> Str_empty] }
    [] type = "OKX" ->
         { [size |-> n, side |-> Str_net] : n \in -MaxAmount..MaxAmount }
           \cup { [size |-> n, side |-> sd] : n \in 0..MaxAmount, sd \in {Str_long, Str_short} }

\* a filter that keeps every row
KeepsEveryPosition(row) == TRUE

\* .filter((pos) => parseFloat(pos.size) !== 0)
KeepsPosition(row) == row.size # 0

\* the side of the Position a connector builds from a native row
PositionSide(type, row) ==
  CASE type \in {"DELTA", "BINANCE"} -> IF row.size > 0 THEN Str_long ELSE Str_short
    [] type = "BYBIT" -> ToLowerCase(row.side)
    [] type = "OKX" -> IF row.side = Str_long THEN Str_long ELSE Str_short

\* the size of the Position: Math.abs(parseFloat(...)), on Bybit parseFloat(position.size)
PositionSize(type, row) == IF type = "BYBIT" THEN row.size ELSE Abs(row.size)

\* the try block of getPositions on the rows of a 2xx answer
GetPositions(type, rows) ==
  LET kept == SelectSeq(rows, KeepsPosition)
  IN [i \in 1..Len(kept) |->
        [side |-> PositionSide(type, kept[i]), size |-> PositionSize(type, kept[i])]]

\* the sequences of at most MaxRows rows
RowLists(S) == UNION { [1..n -> S] : n \in 0..MaxRows }

(***************************************************************************)
(* Stream messages.  A received text either parses as JSON or does not; a  *)
(* parsed message is null, a number or an object, of which the model keeps *)
(* the fields the four handlers read.  A JavaScript value has a type t, a  *)
(* string s (of a string) and a number n (of a number; the length of an    *)
(* array).                                                                 *)
(***************************************************************************)
JsValue(t, s, n) == [t |-> t, s |-> s, n |-> n]
Undefined == JsValue("undefined", << >>, 0)
Null == JsValue("null", << >>, 0)
JsString(s) == JsValue("string", s, 0)
JsNumber(n) == JsValue("number", << >>, n)
JsObject == JsValue("object", << >>, 0)
\* an array of n objects
JsArray(n) == JsValue("array", << >>, n)

\* the value is truthy in a condition
Truthy(v) ==
  CASE v.t \in {"undefined", "null"} -> FALSE
    [] v.t = "string" -> v.s # << >>
    [] v.t = "number" -> v.n # 0
    [] OTHER -> TRUE
\* String.prototype.startsWith
StartsWith(s, prefix) == Len(s) >= Len(prefix) /\ SubSeq(s, 1, Len(prefix)) = prefix
\* v[0]
Index0(v) ==
  CASE v.t = "array" /\ v.n > 0 -> JsObject
    [] v.t = "string" /\ v.s # << >> -> JsString(<<v.s[1]>>)
    [] OTHER -> Undefined

Str_24hrTicker == <<"2", "4", "h", "r", "T", "i", "c", "k", "e", "r">>
Str_aggTrade == <<"a", "g", "g", "T", "r", "a", "d", "e">>
Str_ticker == <<"t", "i", "c", "k", "e", "r">>
Str_tickers == <<"t", "i", "c", "k", "e", "r", "s">>
Str_tickersDot == <<"t", "i", "c", "k", "e", "r", "s", ".">>
Str_tickersBTC == <<"t", "i", "c", "k", "e", "r", "s", ".", "B", "T", "C">>
Str_tickersBare == <<"t", "i", "c", "k", "e", "r", "s", "B", "T", "C">>
Str_trades == <<"t", "r", "a", "d", "e", "s">>
Str_subscriptions == <<"s", "u", "b", "s", "c", "r", "i", "p", "t", "i", "o", "n", "s">>
Str_BTC == <<"B", "T", "C">>

\* the object {}: every field the handlers read is undefined
EmptyObject ==
  [t |-> "object", e |-> Undefined, type |-> Undefined, symbol |-> Undefined,
   topic |-> Undefined, data |-> Undefined, arg |-> Undefined, channel |-> Undefined]
\* the JSON texts `null` and `1`
JsonNull == [EmptyObject EXCEPT !.t = "null"]
JsonNumber == [EmptyObject EXCEPT !.t = "number"]

\* the messages of each exchange: its ticker, and messages that miss a part of it
BinanceMessages ==
  { [EmptyObject EXCEPT !.e = JsString(Str_24hrTicker)],
    [EmptyObject EXCEPT !.e = JsString(Str_aggTrade)] }
BybitMessages ==
  { [EmptyObject EXCEPT !.topic = JsString(Str_tickersBTC), !.data = JsObject],
    [EmptyObject EXCEPT !.topic = JsString(Str_tickersBTC)],
    [EmptyObject EXCEPT !.topic = JsString(Str_tickersBare), !.data = JsObject],
    [EmptyObject EXCEPT !.topic = JsNumber(1), !.data = JsObject] }
OKXMessages ==
  { [EmptyObject EXCEPT !.arg = JsObject, !.channel = JsString(Str_tickers), !.data = JsArray(1)],
    [EmptyObject EXCEPT !.arg = JsObject, !.channel = JsString(Str_tickers), !.data = JsArray(0)],
    [EmptyObject EXCEPT !.arg = JsObject, !.channel = JsString(Str_tickers)],
    [EmptyObject EXCEPT !.arg = JsObject, !.channel = JsString(Str_trades), !.data = JsArray(1)] }
DeltaMessages ==
  { [EmptyObject EXCEPT !.type = JsString(Str_ticker), !.symbol = JsString(Str_BTC)],
    [EmptyObject EXCEPT !.type = JsString(Str_ticker)],
    [EmptyObject EXCEPT !.type = JsString(Str_subscriptions), !.symbol = JsString(Str_BTC)] }
JsonValues ==
  {EmptyObject, JsonNull, JsonNumber} \cup BinanceMessages \cup BybitMessages
    \cup OKXMessages \cup DeltaMessages

\* a received text: well-formed JSON of a value, or not JSON at all
Text(wellFormed, json) == [wellFormed |-> wellFormed, json |-> json]
Texts == { Text(TRUE, v) : v \in JsonValues } \cup { Text(FALSE, EmptyObject) }

\* JSON.parse(data.toString())
JsonParse(text) ==
  IF text.wellFormed THEN Return(text.json) ELSE Throw(NewError("SyntaxError"))

TypeError == Throw(NewError("TypeError"))
\* the handler returns having emitted `marketData` (TRUE) or nothing (FALSE)
Emitted == Return(TRUE)
Nothing == Return(FALSE)

\* DeltaExchangeBroker.handleWebSocketMessage
DeltaHandleWebSocketMessage(message) ==
  IF message.t = "null" THEN TypeError
  ELSE IF message.type = JsString(Str_ticker) /\ Truthy(message.symbol) THEN Emitted
  ELSE Nothing

\* BinanceFuturesBroker.handleWebSocketMessage
BinanceHandleWebSocketMessage(message) ==
  IF message.t = "null" THEN TypeError
  ELSE IF message.e = JsString(Str_24hrTicker) THEN Emitted
  ELSE Nothing

\* BybitBroker.handleWebSocketMessage
BybitHandleWebSocketMessage(message) ==
  IF message.t = "null" THEN TypeError
  ELSE IF ~Truthy(message.topic) THEN Nothing
  ELSE IF message.topic.t # "string" THEN TypeError  \* startsWith is not a function
  ELSE IF StartsWith(message.topic.s, Str_tickersDot) /\ Truthy(message.data) THEN Emitted
  ELSE Nothing

OKXEmitsAlways(message) == Emitted

\* OKXBroker.handleWebSocketMessage
OKXHandleWebSocketMessage(message) ==
  IF message.t = "null" THEN TypeError
  ELSE LET channel == IF message.arg.t \in {"undefined", "null"} THEN Undefined
                      ELSE message.channel  \* message.arg?.channel
       IN IF channel = JsString(Str_tickers) /\ Truthy(message.data)
            THEN IF Index0(message.data).t \in {"undefined", "null"}
                   THEN TypeError  \* ticker.instId of undefined
                   ELSE Emitted
            ELSE Nothing

HandleWebSocketMessage(type, message) ==
  CASE type = "DELTA" -> DeltaHandleWebSocketMessage(message)
    [] type = "BINANCE" -> BinanceHandleWebSocketMessage(message)
    [] type = "BYBIT" -> BybitHandleWebSocketMessage(message)
    [] type = "OKX" -> OKXHandleWebSocketMessage(message)

\* the 'message' handler: try { parse; handleWebSocketMessage } catch { log }.  TRUE when
\* the connector emitted `marketData`.
OnMessage(type, text) ==
  LET parsed == JsonParse(text)
  IN IF parsed.kind = "throw" THEN FALSE
     ELSE LET handled == HandleWebSocketMessage(type, parsed.value)
          IN handled.kind = "return" /\ handled.value

(***************************************************************************)
(* Spec: the registry, the connectors' lifecycle and their streams.        *)
(***************************************************************************)
VARIABLES
  instances,    \* BrokerFactory.instances: key -> connector (0: no entry)
  brokers,      \* connector -> [type, apiKey, isConnected, wsClient (0: null)]
  sockets,      \* WebSocket object -> [owner, readyState, hs (the connectWebSocket promise)]
  tasks,        \* asynchronous calls suspended at an await
  ev,           \* what the last step returned or raised to its caller
  returned,     \* history: key -> connectors createBroker returned since the last registry disconnect
  constructed,  \* history: key -> connectors constructed for the key since the last registry disconnect
  calls,        \* history: the number of calls made so far
  exchange,     \* SpecRest: the exchange type of the connector
  operation,    \* SpecRest: the unified operation the caller calls
  rateLimiter,  \* SpecRest: BaseBroker.rateLimiter, window index -> count (0: no entry)
  now,          \* SpecRest: Date.now() in ms
  call,         \* SpecRest: the REST call in flight
  rev,          \* SpecRest: what the last REST call returned or raised to its caller
  mapIn,        \* SpecMap: the (exchange type, native status string) mapOrderStatus is given
  mapOut,       \* SpecMap: what mapOrderStatus returned ("none": not called yet)
  rowsIn,       \* SpecRows: the (exchange type, operation, native rows) of a 2xx answer
  rowsOut,      \* SpecRows: the rows the operation returned
  stream,       \* SpecMessages: the exchange type of the connector that owns the stream
  received,     \* SpecMessages: the texts received on the stream, in the order of receipt
  emitted,      \* SpecMessages: the marketData events emitted, each by the index of its message
  healthChecks, \* SpecHealth: the result object of healthCheckAll, key -> boolean
  order,        \* SpecOrders: the exchange type and the TradeOrder placeOrder is given
  orderData,    \* SpecOrders: the parameters placeOrder submits (done: they were built)
  limits,       \* SpecLimiter: endpoint name -> the limit the connector passes for it
  limiter,      \* SpecLimiter: BaseBroker.rateLimiter, key -> count
  clock,        \* SpecLimiter: Date.now() in ms
  check,        \* SpecLimiter: the last checkRateLimit call and what it returned
  asked,        \* SpecLimiter, history: endpoint name -> the window of its last call and the
                \* number of calls made for it in that window
  probes,       \* SpecHealth: the call of healthCheckAll: its position, the entries it took
                \* from the cache, the keys whose probe is in flight, the probe that settled last
  cause,        \* SpecErrors: the error object handleError is given
  classified,   \* SpecErrors: what handleError returned or threw (done: it was called)
  accounts,     \* SpecAccounts: the broker accounts of the database, id -> account
  route         \* SpecAccounts: the requests of the accounts routes in flight and the last answer

lifecycleVars == <<instances, brokers, sockets, tasks, ev, returned, constructed, calls>>
restVars == <<exchange, operation, rateLimiter, now, call, rev>>
mapVars == <<mapIn, mapOut>>
rowVars == <<rowsIn, rowsOut>>
msgVars == <<stream, received, emitted>>
healthVars == <<healthChecks, probes>>
orderVars == <<order, orderData>>
limiterVars == <<limits, limiter, clock, check, asked>>
errorVars == <<cause, classified>>
accountVars == <<accounts, route>>
vars == <<lifecycleVars, restVars, mapVars, rowVars, errorVars, accountVars, msgVars, healthVars, orderVars, limiterVars>>

BrokerIds == 1..MaxBrokers
SocketIds == 1..MaxSockets

NoBroker == [type |-> "none", apiKey |-> << >>, isConnected |-> FALSE, wsClient |-> 0]
NoSocket == [owner |-> 0, readyState |-> "NONE", hs |-> "none"]
NoEv     == [op |-> "none", b |-> 0, result |-> "none", valid |-> FALSE]

Event(op, b, result, valid) == [op |-> op, b |-> b, result |-> result, valid |-> valid]

Allocated == { b \in BrokerIds : brokers[b] # NoBroker }
\* the identity of the next `new XBroker(credentials)` / `new WebSocket(url)`
NextBroker == Cardinality(Allocated) + 1
NextSocket == Cardinality({ s \in SocketIds : sockets[s] # NoSocket }) + 1
\* the calls in flight are a bag of suspended calls: two calls may be suspended alike
HasFreeTask == BagCardinality(tasks) < MaxTasks
Suspend(t) == tasks (+) SetToBag({t})
Finish(t) == tasks (-) SetToBag({t})
Continue(t, u) == (tasks (-) SetToBag({t})) (+) SetToBag({u})

NoneReturned == [k \in AllKeys |-> {}]

\* a caller makes one more call on the registry or on a connector's lifecycle
Call ==
  /\ calls < MaxCalls
  /\ calls' = calls + 1
  /\ UNCHANGED <<restVars, mapVars, rowVars, errorVars, accountVars, msgVars, healthVars, orderVars, limiterVars>>

\* a continuation or a stream event: no new call
NoCall == UNCHANGED <<calls, restVars, mapVars, rowVars, errorVars, accountVars, msgVars, healthVars, orderVars, limiterVars>>

\* the rate-limit windows the clock reaches, floor(now / windowMs)
TickMs == WindowMs \div 2
Windows == 0..((MaxTicks * TickMs) \div WindowMs)

NoResponse == [kind |-> "none"]
IdleCall == [pc |-> "idle", sent |-> 0]
NoRev == [op |-> "none", denied |-> FALSE, resp |-> NoResponse, outcome |-> Return(FALSE),
          sent |-> 0]

\* the REST part of the state while no REST operation is modelled
RestUnused ==
  /\ exchange = "none"
  /\ operation = "none"
  /\ rateLimiter = [w \in Windows |-> 0]
  /\ now = 0
  /\ call = IdleCall
  /\ rev = NoRev

\* the mapping part of the state while mapOrderStatus is not modelled
MapUnused ==
  /\ mapIn = [exchange |-> "none", state |-> Str_empty]
  /\ mapOut = "none"

\* the row part of the state while the row conversions are not modelled
RowsUnused ==
  /\ rowsIn = [exchange |-> "none", op |-> "none", rows |-> << >>]
  /\ rowsOut = [done |-> FALSE, rows |-> << >>]

\* the message part of the state while no stream message is modelled
MessagesUnused ==
  /\ stream = "none"
  /\ received = << >>
  /\ emitted = << >>

NoCheck == [endpoint |-> "none", limit |-> 0, window |-> 0, admitted |-> FALSE, nth |-> 0,
            fresh |-> FALSE]
\* the limiter part of the state while checkRateLimit is not modelled by its keys
LimiterUnused ==
  /\ limits = [e \in {} |-> 0]
  /\ limiter = [k \in {} |-> 0]
  /\ clock = 0
  /\ check = NoCheck
  /\ asked = [e \in {} |-> 0]

\* the parameters of an order before placeOrder has built them
NoOrderData == [done |-> FALSE, type |-> "none", price |-> Undefined, stop |-> Undefined]
\* the order part of the state while no order is modelled
OrdersUnused ==
  /\ order = [exchange |-> "none", type |-> "none", side |-> "none", price |-> Undefined,
              stopPrice |-> Undefined]
  /\ orderData = NoOrderData

\* the entries of the cache, key -> connector
Entries == [k \in { k \in AllKeys : instances[k] # 0 } |-> instances[k]]
NoEntries == [k \in {} |-> 0]
NoProbe == [key |-> << >>, outcome |-> Return(FALSE), admitted |-> FALSE, resp |-> NoResponse]
\* the health part of the state while healthCheckAll is not called: `limiters` holds the
\* rateLimiter map of each connector, `admitted` what checkRateLimit returned to each probe
HealthUnused ==
  /\ healthChecks = NoEntries
  /\ probes = [pc |-> "idle", entries |-> NoEntries, pending |-> {}, last |-> NoProbe,
               admitted |-> NoEntries, limiters |-> [b \in BrokerIds |-> NoEntries]]

\* an error object without response, code or message
NoCause == Err(NoStatus, "none", "")
\* the error part of the state while handleError is not modelled on its own
ErrorsUnused ==
  /\ cause = NoCause
  /\ classified = [done |-> FALSE, outcome |-> Return(NoCause)]

\* the ids the database gives to broker accounts
AccountIds == { <<"c", "u", "i", "d", "0", "0", "0", "0", "0", "1">>,
                <<"c", "u", "i", "d", "0", "0", "0", "0", "0", "2">> }
NoAccount == [broker |-> "none", apiKey |-> << >>, stored |-> FALSE]
\* `pending` holds the POST requests suspended in validateCredentials; op, id, key, broker
\* and apiKey tell the last request that acted, the account it was about and the key it
\* passed to the registry
NoRoute == [op |-> "none", id |-> << >>, key |-> << >>, broker |-> "none", apiKey |-> << >>,
            pending |-> {}]
\* the accounts part of the state while the accounts routes are not modelled
AccountsUnused ==
  /\ accounts = [id \in AccountIds |-> NoAccount]
  /\ route = NoRoute

InitLifecycle ==
  /\ instances = [k \in AllKeys |-> 0]
  /\ brokers = [b \in BrokerIds |-> NoBroker]
  /\ sockets = [s \in SocketIds |-> NoSocket]
  /\ tasks = EmptyBag
  /\ ev = NoEv
  /\ returned = NoneReturned
  /\ constructed = NoneReturned
  /\ calls = 0

Init ==
  /\ InitLifecycle
  /\ RestUnused
  /\ MapUnused
  /\ RowsUnused
  /\ MessagesUnused
  /\ HealthUnused
  /\ OrdersUnused
  /\ LimiterUnused
  /\ ErrorsUnused
  /\ AccountsUnused

(***************************************************************************)
(* BrokerFactory.createBroker, a synchronous function.                     *)
(***************************************************************************)
\* a lookup that never finds the entry
CacheHasNever(key) == FALSE

\* this.instances.has(key)
CacheHas(key) == instances[key] # 0

\* the default branch of the construction switch
CreateThrows(in) == ~CacheHas(KeyOf(in)) /\ in.brokerType \notin SupportedBrokers
CreateConstructs(in) == ~CacheHas(KeyOf(in)) /\ in.brokerType \in SupportedBrokers

\* new DeltaExchangeBroker(credentials) | new BinanceFuturesBroker(...) | ...
NewBroker(in) ==
  [type |-> in.brokerType, apiKey |-> in.apiKey, isConnected |-> FALSE, wsClient |-> 0]

\* a construction whose result is not stored
StoreInstanceLost(key, b) == instances

\* this.instances.set(key, broker)
StoreInstance(key, b) == [instances EXCEPT ![key] = b]

\* the connector createBroker returns, and the cache and the heap after the call
CreatedBroker(in) == IF CacheHas(KeyOf(in)) THEN instances[KeyOf(in)] ELSE NextBroker
InstancesAfterCreate(in) ==
  IF CreateConstructs(in) THEN StoreInstance(KeyOf(in), NextBroker) ELSE instances
BrokersAfterCreate(in) ==
  IF CreateConstructs(in) THEN [brokers EXCEPT ![NextBroker] = NewBroker(in)] ELSE brokers

\* the history of createBroker's results
NoteCreate(in) ==
  /\ returned' = [returned EXCEPT ![KeyOf(in)] = @ \cup {CreatedBroker(in)}]
  /\ constructed' = IF CreateConstructs(in)
                      THEN [constructed EXCEPT ![KeyOf(in)] = @ \cup {NextBroker}]
                      ELSE constructed

\* what createBroker(in) returned or raised: the connector b, or the unsupported-type error
CreateEvent(in, b, result) ==
  [op |-> "createBroker", b |-> b, result |-> result, valid |-> FALSE,
   brokerType |-> in.brokerType, apiKey |-> in.apiKey, instanceId |-> in.instanceId]

CreateBrokerCall(in) ==
  /\ Call
  /\ CreateConstructs(in) => NextBroker <= MaxBrokers
  /\ IF CreateThrows(in)
       THEN /\ ev' = CreateEvent(in, 0, "unsupported")
            /\ UNCHANGED <<instances, brokers, returned, constructed>>
       ELSE /\ instances' = InstancesAfterCreate(in)
            /\ brokers' = BrokersAfterCreate(in)
            /\ ev' = CreateEvent(in, CreatedBroker(in),
                                 IF CacheHas(KeyOf(in)) THEN "cached" ELSE "created")
            /\ NoteCreate(in)
  /\ UNCHANGED <<sockets, tasks>>

(***************************************************************************)
(* connect(): `await this.validateCredentials(); await this.connectWeb-    *)
(* Socket(); this.isConnected = true` inside try/catch.                    *)
(***************************************************************************)
\* the async call suspended at `await this.validateCredentials()`
ConnectTask(op, b, key) ==
  [op |-> op, b |-> b, key |-> key, pc |-> "validate", sock |-> 0, valid |-> FALSE]

\* BrokerFactory.connectBroker up to its first await
ReportsDisconnected(bs, b) == FALSE

\* BaseBroker.getConnectionStatus of connector b among the connectors bs
GetConnectionStatus(bs, b) == bs[b].isConnected

ConnectBrokerCall(in) ==
  /\ Call
  /\ CreateConstructs(in) => NextBroker <= MaxBrokers
  /\ IF CreateThrows(in)
       THEN /\ ev' = Event("connectBroker", 0, "unsupported", FALSE)
            /\ UNCHANGED <<instances, brokers, tasks, returned, constructed>>
       ELSE /\ instances' = InstancesAfterCreate(in)
            /\ brokers' = BrokersAfterCreate(in)
            /\ NoteCreate(in)
            /\ IF GetConnectionStatus(BrokersAfterCreate(in), CreatedBroker(in))
                 THEN \* if (!broker.getConnectionStatus()) is false: return broker
                      /\ ev' = Event("connectBroker", CreatedBroker(in), "noop", FALSE)
                      /\ UNCHANGED tasks
                 ELSE /\ HasFreeTask
                      /\ tasks' = Suspend(ConnectTask("connectBroker", CreatedBroker(in), KeyOf(in)))
                      /\ ev' = NoEv
  /\ UNCHANGED sockets

\* a caller that holds a connector calls connect() on it
ConnectCall(b) ==
  /\ Call
  /\ b \in Allocated
  /\ HasFreeTask
  /\ tasks' = Suspend(ConnectTask("connect", b, << >>))
  /\ ev' = NoEv
  /\ UNCHANGED <<instances, brokers, sockets, returned, constructed>>

\* connect() goes on to connectWebSocket() when validateCredentials() did not throw:
\* the boolean it returned is not read
ConnectProceeds(v) == v.kind = "return"

\* connectWebSocket(): this.wsClient = new WebSocket(this.wsURL), handlers attached
OpenSocket(b) == [sockets EXCEPT ![NextSocket] =
                    [owner |-> b, readyState |-> "CONNECTING", hs |-> "pending"]]
\* the answers the exchange gives to the validation request in this specification
ValidateAnswers ==
  { HttpOk(TRUE), HttpOk(FALSE),
    HttpFail(401, "ERR_BAD_REQUEST", "Request failed with status code 401"),
    HttpFail(503, "ERR_BAD_RESPONSE", "Request failed with status code 503") }

\* a call suspended at an await whose promise has settled: at `await this.connectWebSocket()`
\* once the handshake has settled, at `await broker.disconnect()` and at
\* `await Promise.all(disconnectPromises)` at once, for disconnect() awaits nothing
Runnable(t) ==
  \/ t.pc = "handshake" /\ sockets[t.sock].hs # "pending"
  \/ t.pc \in {"delete", "clear"}
\* the microtask queue is empty: the event loop takes the next I/O event
Idle == \A t \in BagToSet(tasks) : ~Runnable(t)

\* validateCredentials() settles and connect() continues
ConnectValidated(t) ==
  /\ NoCall
  /\ Idle
  /\ t.pc = "validate"
  /\ \E admitted \in BOOLEAN, resp \in ValidateAnswers :
       LET b == t.b
           v == ValidateCredentials(brokers[b].type, admitted, resp)
       IN IF ConnectProceeds(v)
            THEN /\ NextSocket <= MaxSockets
                 /\ sockets' = OpenSocket(b)
                 /\ brokers' = [brokers EXCEPT ![b].wsClient = NextSocket]
                 /\ tasks' = Continue(t, [t EXCEPT !.pc = "handshake",
                                                    !.sock = NextSocket,
                                                    !.valid = v.value])
                 /\ ev' = NoEv
            ELSE \* catch (error) { throw this.handleError(error, ...) }
                 /\ tasks' = Finish(t)
                 /\ ev' = Event(t.op, b, "error", FALSE)
                 /\ UNCHANGED <<sockets, brokers>>
  /\ UNCHANGED <<instances, returned, constructed>>


\* connect() after the handshake: this.isConnected = true, or the catch block
ConnectResume(t) ==
  /\ NoCall
  /\ t.op \in {"connect", "connectBroker"}
  /\ Runnable(t)
  /\ IF sockets[t.sock].hs = "resolved"
       THEN /\ brokers' = [brokers EXCEPT ![t.b].isConnected = TRUE]
            /\ ev' = Event(t.op, t.b, "ok", t.valid)
       ELSE /\ ev' = Event(t.op, t.b, "error", t.valid)
            /\ UNCHANGED brokers
  /\ tasks' = Finish(t)
  /\ UNCHANGED <<instances, sockets, returned, constructed>>

(***************************************************************************)
(* subscribeToMarketData: opens the stream when there is none that is open *)
(* and sends the subscribe frame; unsubscribeFromMarketData.  A call names *)
(* one symbol.                                                             *)
(***************************************************************************)
\* !this.wsClient || this.wsClient.readyState !== WebSocket.OPEN
StreamNotOpen(b) ==
  brokers[b].wsClient = 0 \/ sockets[brokers[b].wsClient].readyState # "OPEN"

\* a send that always puts the frame on the wire
SendAlways(b) == {"sent"}

\* this.wsClient?.send(frame): nothing without a stream reference; WebSocket.send puts
\* the frame on the wire of an open stream, throws on a stream that is still connecting,
\* and on a closing or closed stream throws or drops the frame, by the library version
SendOutcomes(b) ==
  IF brokers[b].wsClient = 0 THEN {"skipped"}
  ELSE CASE sockets[brokers[b].wsClient].readyState = "OPEN" -> {"sent"}
         [] sockets[brokers[b].wsClient].readyState = "CONNECTING" -> {"throws"}
         [] OTHER -> {"dropped", "throws"}

\* a subscribe or unsubscribe call settles after its send: `opened` is the stream the call
\* opened (0: none), `sock` the stream reference it sent on, `frame` what became of the frame
FrameEvent(op, b, opened, frame) ==
  [op |-> op, b |-> b, result |-> IF frame = "throws" THEN "error" ELSE "ok", valid |-> FALSE,
   opened |-> opened, sock |-> brokers[b].wsClient, frame |-> frame]

\* Delta looks the product id of the symbol up before it sends the frame
LooksUpProduct(b) == brokers[b].type = "DELTA"

FrameTask(op, b, pc, sock) ==
  [op |-> op, b |-> b, key |-> << >>, pc |-> pc, sock |-> sock, valid |-> FALSE]

SubscribeCall(b) ==
  /\ Call
  /\ b \in Allocated
  /\ IF StreamNotOpen(b)
       THEN /\ HasFreeTask
            /\ NextSocket <= MaxSockets
            /\ sockets' = OpenSocket(b)
            /\ brokers' = [brokers EXCEPT ![b].wsClient = NextSocket]
            /\ tasks' = Suspend(FrameTask("subscribe", b, "handshake", NextSocket))
            /\ ev' = NoEv
       ELSE IF LooksUpProduct(b)
         THEN /\ HasFreeTask
              /\ tasks' = Suspend(FrameTask("subscribe", b, "lookup", 0))
              /\ ev' = NoEv
              /\ UNCHANGED <<sockets, brokers>>
         ELSE /\ \E frame \in SendOutcomes(b) : ev' = FrameEvent("subscribe", b, 0, frame)
              /\ UNCHANGED <<sockets, brokers, tasks>>
  /\ UNCHANGED <<instances, returned, constructed>>

\* subscribeToMarketData after `await this.connectWebSocket()`
SubscribeResume(t) ==
  /\ NoCall
  /\ t.op = "subscribe"
  /\ Runnable(t)
  /\ IF sockets[t.sock].hs = "rejected"
       THEN /\ ev' = Event("subscribe", t.b, "error", FALSE)
            /\ tasks' = Finish(t)
       ELSE IF LooksUpProduct(t.b)
         THEN /\ tasks' = Continue(t, [t EXCEPT !.pc = "lookup"])
              /\ ev' = NoEv
         ELSE /\ \E frame \in SendOutcomes(t.b) : ev' = FrameEvent("subscribe", t.b, t.sock, frame)
              /\ tasks' = Finish(t)
  /\ UNCHANGED <<instances, brokers, sockets, returned, constructed>>

\* the answers to the product list request of a subscribe or unsubscribe call
LookupAnswers ==
  { HttpOk(TRUE), HttpOk(FALSE),
    HttpFail(503, "ERR_BAD_RESPONSE", "Request failed with status code 503") }

\* Delta: `await this.getProductId(symbol)` settles; the call sends its frame, or the
\* error of the lookup leaves the call
FrameLookupSettles(t) ==
  /\ NoCall
  /\ Idle
  /\ t.op \in {"subscribe", "unsubscribe"}
  /\ t.pc = "lookup"
  /\ \E resp \in LookupAnswers :
       IF GetProductId(resp).kind = "throw"
         THEN ev' = Event(t.op, t.b, "error", FALSE)
         ELSE \E frame \in SendOutcomes(t.b) : ev' = FrameEvent(t.op, t.b, t.sock, frame)
  /\ tasks' = Finish(t)
  /\ UNCHANGED <<instances, brokers, sockets, returned, constructed>>

\* unsubscribeFromMarketData: returns at once when there is no open stream
UnsubscribeSendsAnyway(b) == FALSE

\* if (!this.wsClient || this.wsClient.readyState !== WebSocket.OPEN) { return; }
UnsubscribeReturns(b) == StreamNotOpen(b)

UnsubscribeCall(b) ==
  /\ Call
  /\ b \in Allocated
  /\ IF UnsubscribeReturns(b)
       THEN /\ ev' = Event("unsubscribe", b, "noop", FALSE)
            /\ UNCHANGED tasks
       ELSE IF LooksUpProduct(b)
         THEN /\ HasFreeTask
              /\ tasks' = Suspend(FrameTask("unsubscribe", b, "lookup", 0))
              /\ ev' = NoEv
         ELSE /\ \E frame \in SendOutcomes(b) : ev' = FrameEvent("unsubscribe", b, 0, frame)
              /\ UNCHANGED tasks
  /\ UNCHANGED <<instances, brokers, sockets, returned, constructed>>

(***************************************************************************)
(* disconnect(): an async function without an await                        *)
(***************************************************************************)
\* WebSocket.close()
CloseCalled(sock) ==
  IF sock.readyState \in {"CONNECTING", "OPEN"} THEN [sock EXCEPT !.readyState = "CLOSING"]
  ELSE sock

\* disconnect() of every connector in B
SocketsAfterDisconnect(B) ==
  [s \in SocketIds |->
     IF \E b \in B : brokers[b].wsClient = s THEN CloseCalled(sockets[s]) ELSE sockets[s]]
BrokersAfterDisconnect(B) ==
  [b \in BrokerIds |->
     IF b \in B THEN [brokers[b] EXCEPT !.wsClient = 0, !.isConnected = FALSE] ELSE brokers[b]]

DisconnectCall(b) ==
  /\ Call
  /\ b \in Allocated
  /\ sockets' = SocketsAfterDisconnect({b})
  /\ brokers' = BrokersAfterDisconnect({b})
  /\ ev' = Event("disconnect", b, "ok", FALSE)
  /\ UNCHANGED <<instances, tasks, returned, constructed>>

\* a registry disconnect ends the period the histories cover
ForgetHistory ==
  /\ returned' = NoneReturned
  /\ constructed' = NoneReturned

\* BrokerFactory.disconnectBroker up to `await broker.disconnect()`
DisconnectBrokerCall(id) ==
  /\ Call
  /\ IF CacheHas(id)
       THEN /\ HasFreeTask
            /\ sockets' = SocketsAfterDisconnect({instances[id]})
            /\ brokers' = BrokersAfterDisconnect({instances[id]})
            /\ tasks' = Suspend([op |-> "disconnectBroker", b |-> instances[id], key |-> id,
                  pc |-> "delete", sock |-> 0, valid |-> FALSE])
            /\ ev' = NoEv
            /\ ForgetHistory
       ELSE /\ ev' = Event("disconnectBroker", 0, "ok", FALSE)
            /\ UNCHANGED <<sockets, brokers, tasks, returned, constructed>>
  /\ UNCHANGED instances

\* this.instances.delete(instanceId)
DeleteNothing(key) == instances

\* this.instances.delete(instanceId)
DeleteInstance(key) == [instances EXCEPT ![key] = 0]

\* disconnectBroker after `await broker.disconnect()`
DisconnectBrokerDelete(t) ==
  /\ NoCall
  /\ t.pc = "delete"
  /\ instances' = DeleteInstance(t.key)
  /\ tasks' = Finish(t)
  /\ ev' = Event("disconnectBroker", t.b, "ok", FALSE)
  /\ ForgetHistory
  /\ UNCHANGED <<brokers, sockets>>

Cached == { instances[k] : k \in { k \in AllKeys : CacheHas(k) } }

\* BrokerFactory.disconnectAllBrokers up to `await Promise.all(disconnectPromises)`
DisconnectAllCall ==
  /\ Call
  /\ HasFreeTask
  /\ sockets' = SocketsAfterDisconnect(Cached)
  /\ brokers' = BrokersAfterDisconnect(Cached)
  /\ tasks' = Suspend([op |-> "disconnectAllBrokers", b |-> 0, key |-> << >>, pc |-> "clear",
        sock |-> 0, valid |-> FALSE])
  /\ ev' = NoEv
  /\ ForgetHistory
  /\ UNCHANGED instances

\* this.instances.clear()
ClearNothing == instances

\* this.instances.clear()
ClearInstances == [k \in AllKeys |-> 0]

\* disconnectAllBrokers after `await Promise.all(disconnectPromises)`
DisconnectAllClear(t) ==
  /\ NoCall
  /\ t.pc = "clear"
  /\ instances' = ClearInstances
  /\ tasks' = Finish(t)
  /\ ev' = Event("disconnectAllBrokers", 0, "ok", FALSE)
  /\ ForgetHistory
  /\ UNCHANGED <<brokers, sockets>>

(***************************************************************************)
(* Stream events, delivered by the event loop to the handlers that         *)
(* connectWebSocket attached.                                              *)
(***************************************************************************)
\* handlers that neither resolve nor reject
SettleNever(hs, how) == hs

\* resolve() / reject(error): a promise settles once
Settle(hs, how) == IF hs = "pending" THEN how ELSE hs

\* this.wsClient.on('close', ...): this.wsClient = null
OnClose(s) == [brokers EXCEPT ![sockets[s].owner].wsClient = 0]

\* the handler of a stream event has run: `wasOpen` says whether the stream was open when
\* the event came, `emitted` which events the connector emitted to its listeners
StreamEvent(kind, s, events) ==
  [op |-> kind, b |-> sockets[s].owner, result |-> "event", valid |-> FALSE, sock |-> s,
   wasOpen |-> sockets[s].readyState = "OPEN", emitted |-> events]

\* 'open': resolve()
SocketOpen(s) ==
  /\ NoCall
  /\ Idle
  /\ sockets[s].readyState = "CONNECTING"
  /\ sockets' = [sockets EXCEPT ![s].readyState = "OPEN", ![s].hs = Settle(@, "resolved")]
  /\ ev' = StreamEvent("open", s, {})
  /\ UNCHANGED <<instances, brokers, tasks, returned, constructed>>

\* 'error': reject(error); the library emits 'close' in the same tick or later
SocketError(s) ==
  /\ NoCall
  /\ Idle
  /\ \/ sockets[s].readyState \in {"CONNECTING", "OPEN"}
     \/ sockets[s].readyState = "CLOSING" /\ sockets[s].hs = "pending"
  /\ \E closeNow \in BOOLEAN :
       /\ sockets' = [sockets EXCEPT ![s].readyState = IF closeNow THEN "CLOSED" ELSE "CLOSING",
                                     ![s].hs = Settle(@, "rejected")]
       /\ brokers' = IF closeNow THEN OnClose(s) ELSE brokers
  /\ ev' = StreamEvent("error", s, {})
  /\ UNCHANGED <<instances, tasks, returned, constructed>>

\* 'close' of a stream that was open, or after its 'error'
SocketClose(s) ==
  /\ NoCall
  /\ Idle
  /\ \/ sockets[s].readyState = "OPEN"
     \/ sockets[s].readyState = "CLOSING" /\ sockets[s].hs # "pending"
  /\ sockets' = [sockets EXCEPT ![s].readyState = "CLOSED"]
  /\ brokers' = OnClose(s)
  /\ ev' = StreamEvent("close", s, {})
  /\ UNCHANGED <<instances, tasks, returned, constructed>>

Next ==
  \/ \E in \in ConcurrentInputs : CreateBrokerCall(in)
  \/ \E in \in ConcurrentInputs : ConnectBrokerCall(in)
  \/ \E b \in BrokerIds : ConnectCall(b)
  \/ \E t \in BagToSet(tasks) : ConnectValidated(t)
  \/ \E t \in BagToSet(tasks) : ConnectResume(t)
  \/ \E b \in BrokerIds : SubscribeCall(b)
  \/ \E t \in BagToSet(tasks) : SubscribeResume(t)
  \/ \E t \in BagToSet(tasks) : FrameLookupSettles(t)
  \/ \E b \in BrokerIds : UnsubscribeCall(b)
  \/ \E b \in BrokerIds : DisconnectCall(b)
  \/ \E id \in ConcurrentKeys : DisconnectBrokerCall(id)
  \/ \E t \in BagToSet(tasks) : DisconnectBrokerDelete(t)
  \/ DisconnectAllCall
  \/ \E t \in BagToSet(tasks) : DisconnectAllClear(t)
  \/ \E s \in SocketIds : SocketOpen(s)
  \/ \E s \in SocketIds : SocketError(s)
  \/ \E s \in SocketIds : SocketClose(s)

Spec == Init /\ [][Next]_vars

(***************************************************************************)
(* SpecLive: Spec with the scheduling of the event loop.  A continuation   *)
(* whose promise has settled is a microtask and runs; a REST request       *)
(* settles, by its answer or by the timeout of the client; a WebSocket     *)
(* that was closed during its handshake emits its error on the next tick.  *)
(***************************************************************************)
\* the library aborts the handshake of a stream closed while connecting
HandshakeAborted(s) ==
  /\ sockets[s].readyState = "CLOSING"
  /\ sockets[s].hs = "pending"
  /\ SocketError(s)

SpecLive ==
  /\ Spec
  /\ WF_vars(\E t \in BagToSet(tasks) : ConnectValidated(t))
  /\ WF_vars(\E t \in BagToSet(tasks) : ConnectResume(t))
  /\ WF_vars(\E t \in BagToSet(tasks) : SubscribeResume(t))
  /\ WF_vars(\E t \in BagToSet(tasks) : FrameLookupSettles(t))
  /\ WF_vars(\E t \in BagToSet(tasks) : DisconnectBrokerDelete(t))
  /\ WF_vars(\E t \in BagToSet(tasks) : DisconnectAllClear(t))
  /\ WF_vars(\E s \in SocketIds : HandshakeAborted(s))

(***************************************************************************)
(* SpecKeys: the registry's synchronous lookups and its disconnects over   *)
(* every exchange type, API keys that share their first characters and     *)
(* explicit instance ids.                                                  *)
(***************************************************************************)
NextKeys ==
  \/ \E in \in RegistryInputs : CreateBrokerCall(in)
  \/ \E id \in AllKeys : DisconnectBrokerCall(id)
  \/ \E t \in BagToSet(tasks) : DisconnectBrokerDelete(t)
  \/ DisconnectAllCall
  \/ \E t \in BagToSet(tasks) : DisconnectAllClear(t)

SpecKeys == Init /\ [][NextKeys]_vars

(***************************************************************************)
(* SpecRest: the unified REST operations of one connector.  A behaviour    *)
(* fixes the exchange type and the operation its caller calls, one call    *)
(* after the other, while the clock advances.                              *)
(***************************************************************************)
InitRest ==
  /\ InitLifecycle
  /\ exchange \in SupportedBrokers
  /\ operation \in Operations
  /\ rateLimiter = [w \in Windows |-> 0]
  /\ now = 0
  /\ call = IdleCall
  /\ rev = NoRev
  /\ MapUnused
  /\ RowsUnused
  /\ MessagesUnused
  /\ HealthUnused
  /\ OrdersUnused
  /\ LimiterUnused
  /\ ErrorsUnused
  /\ AccountsUnused

\* checkRateLimit: const key = `${endpoint}_${Math.floor(now / windowMs)}`
Window == now \div WindowMs
\* current >= limit: return false
Admits(op) == rateLimiter[Window] < Limit(op)
\* the clean-up reads the window of a key as k.split('_')[1], which is the window for
\* every endpoint name but order_status
SecondPartIsWindow(endpoint) == endpoint # "order_status"
\* this.rateLimiter.set(key, current + 1), then the clean-up of old entries
Admit(op) ==
  [w \in Windows |->
     IF SecondPartIsWindow(Endpoint(op)) /\ w < (now - WindowMs) \div WindowMs THEN 0
     ELSE IF w = Window THEN rateLimiter[w] + 1
     ELSE rateLimiter[w]]

Settled(op, denied, resp, outcome, sent) ==
  [op |-> op, denied |-> denied, resp |-> resp, outcome |-> outcome, sent |-> sent]

\* the caller calls the operation: the rate-limit check, then the first request
OperationCall ==
  /\ call.pc = "idle"
  /\ IF Admits(operation)
       THEN /\ rateLimiter' = Admit(operation)
            /\ call' = [pc |-> IF NeedsProductId(exchange, operation) THEN "lookup" ELSE "request",
                        sent |-> 1]
            /\ rev' = NoRev
       ELSE /\ rev' = Settled(operation, TRUE, NoResponse, Denied(operation), 0)
            /\ UNCHANGED <<rateLimiter, call>>
  /\ UNCHANGED <<lifecycleVars, exchange, operation, now, mapVars, rowVars, errorVars, accountVars, msgVars, healthVars, orderVars, limiterVars>>

\* the answers to the product list request: failures, a list with or without the symbol
ProductAnswers == Failures \cup { HttpOk(TRUE), HttpOk(FALSE) }

\* Delta: `await this.getProductId(symbol)` settles, and the operation sends its request
\* or ends in its catch clause
ProductIdSettles ==
  /\ call.pc = "lookup"
  /\ \E resp \in ProductAnswers :
       IF GetProductId(resp).kind = "return"
         THEN /\ call' = [pc |-> "request", sent |-> call.sent + 1]
              /\ rev' = NoRev
         ELSE /\ call' = IdleCall
              /\ rev' = Settled(operation, FALSE, resp,
                                CatchClause(operation, GetProductId(resp).error), call.sent)
  /\ UNCHANGED <<lifecycleVars, exchange, operation, rateLimiter, now, mapVars, rowVars, errorVars, accountVars, msgVars, healthVars, orderVars, limiterVars>>

\* the request of the operation settles, and the operation with it
RequestSettles ==
  /\ call.pc = "request"
  /\ \E resp \in Answers(exchange) :
       rev' = Settled(operation, FALSE, resp, Complete(exchange, operation, resp), call.sent)
  /\ call' = IdleCall
  /\ UNCHANGED <<lifecycleVars, exchange, operation, rateLimiter, now, mapVars, rowVars, errorVars, accountVars, msgVars, healthVars, orderVars, limiterVars>>

\* time passes
ClockAdvances ==
  /\ now < MaxTicks * TickMs
  /\ now' = now + TickMs
  /\ UNCHANGED <<lifecycleVars, exchange, operation, rateLimiter, call, rev, mapVars, rowVars, errorVars, accountVars, msgVars, healthVars, orderVars, limiterVars>>

NextRest ==
  \/ OperationCall
  \/ ProductIdSettles
  \/ RequestSettles
  \/ ClockAdvances

SpecRest == InitRest /\ [][NextRest]_vars

(***************************************************************************)
(* SpecMap: mapOrderStatus of each connector, applied to one string.       *)
(***************************************************************************)
InitMap ==
  /\ InitLifecycle
  /\ RestUnused
  /\ mapIn \in [exchange : SupportedBrokers, state : StatusStrings]
  /\ mapOut = "none"
  /\ RowsUnused
  /\ MessagesUnused
  /\ HealthUnused
  /\ OrdersUnused
  /\ LimiterUnused
  /\ ErrorsUnused
  /\ AccountsUnused

MapOrderStatusCall ==
  /\ mapOut = "none"
  /\ mapOut' = MapOrderStatus(mapIn.exchange, mapIn.state)
  /\ UNCHANGED <<lifecycleVars, restVars, mapIn, rowVars, errorVars, accountVars, msgVars, healthVars, orderVars, limiterVars>>

NextMap == MapOrderStatusCall

SpecMap == InitMap /\ [][NextMap]_vars

(***************************************************************************)
(* SpecRows: getAccountBalance and getPositions of each connector on the   *)
(* rows of one answer.                                                     *)
(***************************************************************************)
InitRows ==
  /\ InitLifecycle
  /\ RestUnused
  /\ MapUnused
  /\ \E type \in SupportedBrokers :
       \/ \E rows \in RowLists(WalletRows) :
            rowsIn = [exchange |-> type, op |-> "getAccountBalance", rows |-> rows]
       \/ \E rows \in RowLists(PositionRows(type)) :
            rowsIn = [exchange |-> type, op |-> "getPositions", rows |-> rows]
  /\ rowsOut = [done |-> FALSE, rows |-> << >>]
  /\ MessagesUnused
  /\ HealthUnused
  /\ OrdersUnused
  /\ LimiterUnused
  /\ ErrorsUnused
  /\ AccountsUnused

GetAccountBalanceCall ==
  /\ ~rowsOut.done
  /\ rowsIn.op = "getAccountBalance"
  /\ rowsOut' = [done |-> TRUE, rows |-> GetAccountBalance(rowsIn.exchange, rowsIn.rows)]
  /\ UNCHANGED <<lifecycleVars, restVars, mapVars, rowsIn, errorVars, accountVars, msgVars, healthVars, orderVars, limiterVars>>

GetPositionsCall ==
  /\ ~rowsOut.done
  /\ rowsIn.op = "getPositions"
  /\ rowsOut' = [done |-> TRUE, rows |-> GetPositions(rowsIn.exchange, rowsIn.rows)]
  /\ UNCHANGED <<lifecycleVars, restVars, mapVars, rowsIn, errorVars, accountVars, msgVars, healthVars, orderVars, limiterVars>>

NextRows ==
  \/ GetAccountBalanceCall
  \/ GetPositionsCall

SpecRows == InitRows /\ [][NextRows]_vars

(***************************************************************************)
(* SpecMessages: the 'message' handler of one connector's stream, over     *)
(* every sequence of at most MaxMessages received texts.                   *)
(***************************************************************************)
InitMessages ==
  /\ InitLifecycle
  /\ RestUnused
  /\ MapUnused
  /\ RowsUnused
  /\ stream \in SupportedBrokers
  /\ received = << >>
  /\ emitted = << >>
  /\ HealthUnused
  /\ OrdersUnused
  /\ LimiterUnused
  /\ ErrorsUnused
  /\ AccountsUnused

\* the stream delivers one text and the 'message' handler runs to its end
MessageReceived(text) ==
  /\ Len(received) < MaxMessages
  /\ received' = Append(received, text)
  /\ emitted' = IF OnMessage(stream, text) THEN Append(emitted, Len(received) + 1)
                ELSE emitted
  /\ UNCHANGED <<lifecycleVars, restVars, mapVars, rowVars, errorVars, accountVars, stream, healthVars, orderVars, limiterVars>>

NextMessages == \E text \in Texts : MessageReceived(text)

SpecMessages == InitMessages /\ [][NextMessages]_vars

(***************************************************************************)
(* SpecOrders: the parameters placeOrder builds from a TradeOrder, over    *)
(* every order type and every price and stop price, absent ones included.  *)
(***************************************************************************)
Digits == <<"0", "1", "2", "3", "4", "5", "6", "7", "8", "9">>
\* Number.prototype.toString of a number below ten
NumberToString(v) == JsString(<<Digits[v.n + 1]>>)

\* an optional number of a TradeOrder: undefined, or a number from 0 to MaxAmount
OptionalAmounts == {Undefined} \cup { JsNumber(n) : n \in 0..MaxAmount }
TradeOrders ==
  [exchange : SupportedBrokers, type : {"market", "limit"}, side : {"buy", "sell"},
   price : OptionalAmounts, stopPrice : OptionalAmounts]

\* the orderData of placeOrder: the order type, and the price and the stop price under the
\* exchange's names (limit_price/stop_price, price/stopPrice, price/stopLoss, px/slTriggerPx),
\* each set only if the order's field is truthy
OrderData(o) ==
  [done |-> TRUE,
   type |-> o.type,
   price |-> IF Truthy(o.price) THEN NumberToString(o.price) ELSE Undefined,
   stop |-> IF Truthy(o.stopPrice) THEN NumberToString(o.stopPrice) ELSE Undefined]

InitOrders ==
  /\ InitLifecycle
  /\ RestUnused
  /\ MapUnused
  /\ RowsUnused
  /\ MessagesUnused
  /\ HealthUnused
  /\ order \in TradeOrders
  /\ orderData = NoOrderData
  /\ LimiterUnused
  /\ ErrorsUnused
  /\ AccountsUnused

\* placeOrder builds the parameters and posts them
PlaceOrderCall ==
  /\ ~orderData.done
  /\ orderData' = OrderData(order)
  /\ UNCHANGED <<lifecycleVars, restVars, mapVars, rowVars, errorVars, accountVars, msgVars, healthVars, order, limiterVars>>

NextOrders == PlaceOrderCall

SpecOrders == InitOrders /\ [][NextOrders]_vars

(***************************************************************************)
(* SpecLimiter: BaseBroker.checkRateLimit by its keys, `${endpoint}_${w}`, *)
(* for one and for two endpoints of a connector, over a few windows.  A    *)
(* key is the sequence of the parts that k.split('_') gives.               *)
(***************************************************************************)
\* name.split('_')
Parts(name) == IF name = "order_status" THEN <<"order", "status">> ELSE <<name>>
\* `${endpoint}_${Math.floor(now / windowMs)}`, split at '_'
Key(endpoint, t, windowMs) == Append(Parts(endpoint), Digits[(t \div windowMs) + 1])
\* parseInt of a part: the number of a digit, NaN of anything else
ParseInt(part) ==
  IF \E d \in 1..Len(Digits) : Digits[d] = part
    THEN [nan |-> FALSE, n |-> (CHOOSE d \in 1..Len(Digits) : Digits[d] = part) - 1]
    ELSE [nan |-> TRUE, n |-> 0]
\* k.split('_')[1] && parseInt(k.split('_')[1]) < Math.floor((now - windowMs) / windowMs)
Stale(k, t, windowMs) ==
  /\ Len(k) >= 2
  /\ ~ParseInt(k[2]).nan
  /\ ParseInt(k[2]).n < (t - windowMs) \div windowMs

\* this.rateLimiter.get(key) || 0
Current(m, k) == IF k \in DOMAIN m THEN m[k] ELSE 0
\* this.rateLimiter.set(key, value)
SetCount(m, k, value) == [x \in DOMAIN m \cup {k} |-> IF x = k THEN value ELSE m[x]]
\* the clean-up loop: delete every stale key
CleanUp(m, t, windowMs) == [x \in { x \in DOMAIN m : ~Stale(x, t, windowMs) } |-> m[x]]

LimitPassed(current, limit) == current > limit

\* if (current >= limit)
LimitReached(current, limit) == current >= limit

RefusedButCounted(m, k) == SetCount(m, k, Current(m, k) + 1)

\* the map after a refused call: return false before anything is set
Refused(m, k) == m

\* checkRateLimit(endpoint, limit, windowMs) at time t on the map m: what it returns and
\* the map it leaves
CheckRateLimit(m, endpoint, limit, windowMs, t) ==
  LET key == Key(endpoint, t, windowMs)
  IN IF LimitReached(Current(m, key), limit)
       THEN [admitted |-> FALSE, map |-> Refused(m, key)]
       ELSE [admitted |-> TRUE,
             map |-> CleanUp(SetCount(m, key, Current(m, key) + 1), t, windowMs)]

\* the endpoints a behaviour calls and the limit of each: the call of the example, and two
\* endpoints with small limits, with and without an underscore in the name
LimitTables ==
  { [e \in {"order"} |-> 10],
    [e \in {"order", "balance"} |-> IF e = "order" THEN 2 ELSE 1],
    [e \in {"order_status", "positions"} |-> IF e = "order_status" THEN 2 ELSE 1] }

InitLimiter ==
  /\ InitLifecycle
  /\ RestUnused
  /\ MapUnused
  /\ RowsUnused
  /\ MessagesUnused
  /\ HealthUnused
  /\ OrdersUnused
  /\ limits \in LimitTables
  /\ limiter = [k \in {} |-> 0]
  /\ clock = 0
  /\ check = NoCheck
  /\ asked = [e \in DOMAIN limits |-> [window |-> 0, n |-> 0]]
  /\ ErrorsUnused
  /\ AccountsUnused

\* the calls made for the endpoint in the window of the clock, this one not counted
AskedNow(endpoint) ==
  IF asked[endpoint].window = clock \div WindowMs THEN asked[endpoint].n ELSE 0

\* an operation of the connector calls checkRateLimit for its endpoint
CheckRateLimitCall(endpoint) ==
  /\ AskedNow(endpoint) <= limits[endpoint] + 1
  /\ LET r == CheckRateLimit(limiter, endpoint, limits[endpoint], WindowMs, clock)
     IN /\ limiter' = r.map
        /\ check' = [endpoint |-> endpoint, limit |-> limits[endpoint],
                     window |-> clock \div WindowMs, admitted |-> r.admitted,
                     nth |-> AskedNow(endpoint) + 1, fresh |-> TRUE]
  /\ asked' = [asked EXCEPT ![endpoint] =
                 [window |-> clock \div WindowMs, n |-> AskedNow(endpoint) + 1]]
  /\ UNCHANGED <<lifecycleVars, restVars, mapVars, rowVars, errorVars, accountVars, msgVars, healthVars, orderVars,
                 limits, clock>>

\* time passes, half a window at a time
LimiterClockAdvances ==
  /\ clock < MaxWindows * WindowMs
  /\ clock' = clock + TickMs
  /\ check' = [check EXCEPT !.fresh = FALSE]
  /\ UNCHANGED <<lifecycleVars, restVars, mapVars, rowVars, errorVars, accountVars, msgVars, healthVars, orderVars,
                 limits, limiter, asked>>

NextLimiter ==
  \/ \E endpoint \in DOMAIN limits : CheckRateLimitCall(endpoint)
  \/ LimiterClockAdvances

SpecLimiter == InitLimiter /\ [][NextLimiter]_vars

(***************************************************************************)
(* SpecHealth: healthCheckAll over a cache that createBroker fills and     *)
(* disconnectBroker empties while the probes are in flight.                *)
(***************************************************************************)
HealthyAlways(type, admitted, resp) == TRUE

\* BaseBroker.healthCheck: try { return await this.validateCredentials() } catch { return false }
HealthCheck(type, admitted, resp) ==
  LET v == ValidateCredentials(type, admitted, resp)
  IN IF v.kind = "return" THEN v.value ELSE FALSE

\* the probes run in one rate-limit window
ProbeTime == 0
\* this.checkRateLimit('validate', 10, 60000) of connector b at the start of its probe
ProbeLimit(b) == CheckRateLimit(probes.limiters[b], "validate", QueryLimit, WindowMs, ProbeTime)

\* healthCheckAll up to `await Promise.all(checkPromises)`: one probe for each cache entry,
\* each run up to the first await of validateCredentials, behind the rate-limit check
HealthCheckAllCall ==
  /\ probes.pc \in {"idle", "returned"}
  /\ \A b \in BrokerIds :
       Current(probes.limiters[b], Key("validate", ProbeTime, WindowMs)) <= QueryLimit
  /\ healthChecks' = NoEntries
  /\ probes' = [pc |-> "probing", entries |-> Entries, pending |-> DOMAIN Entries,
                last |-> NoProbe,
                admitted |-> [k \in DOMAIN Entries |-> ProbeLimit(Entries[k]).admitted],
                limiters |-> [b \in BrokerIds |->
                                IF \E k \in DOMAIN Entries : Entries[k] = b
                                  THEN ProbeLimit(b).map ELSE probes.limiters[b]]]
  /\ UNCHANGED <<lifecycleVars, restVars, mapVars, rowVars, errorVars, accountVars, msgVars, orderVars, limiterVars>>

\* the probe of one key settles: healthChecks[key] = await broker.healthCheck()
ProbeSettles(key) ==
  /\ probes.pc = "probing"
  /\ key \in probes.pending
  /\ \E resp \in ValidateAnswers :
       LET type == brokers[probes.entries[key]].type
           admitted == probes.admitted[key]
       IN /\ healthChecks' = [k \in DOMAIN healthChecks \cup {key} |->
                                IF k = key THEN HealthCheck(type, admitted, resp)
                                ELSE healthChecks[k]]
          /\ probes' = [probes EXCEPT !.pending = @ \ {key},
                          !.last = [key |-> key,
                                    outcome |-> ValidateCredentials(type, admitted, resp),
                                    admitted |-> admitted, resp |-> resp]]
  /\ UNCHANGED <<lifecycleVars, restVars, mapVars, rowVars, errorVars, accountVars, msgVars, orderVars, limiterVars>>

\* every probe has settled: return healthChecks
HealthCheckAllReturns ==
  /\ probes.pc = "probing"
  /\ probes.pending = {}
  /\ probes' = [probes EXCEPT !.pc = "returned"]
  /\ UNCHANGED <<healthChecks, lifecycleVars, restVars, mapVars, rowVars, errorVars, accountVars, msgVars, orderVars, limiterVars>>

NextHealth ==
  \/ \E in \in ConcurrentInputs : CreateBrokerCall(in)
  \/ \E id \in ConcurrentKeys : DisconnectBrokerCall(id)
  \/ \E t \in BagToSet(tasks) : DisconnectBrokerDelete(t)
  \/ HealthCheckAllCall
  \/ \E key \in AllKeys : ProbeSettles(key)
  \/ HealthCheckAllReturns

SpecHealth == Init /\ [][NextHealth]_vars

(***************************************************************************)
(* SpecRegistry: callers that use the registry only (createBroker,         *)
(* connectBroker, disconnectBroker, disconnectAllBrokers), with the stream *)
(* events of the connectors it connects.                                   *)
(***************************************************************************)
NextRegistry ==
  \/ \E in \in ConcurrentInputs : CreateBrokerCall(in)
  \/ \E in \in ConcurrentInputs : ConnectBrokerCall(in)
  \/ \E t \in BagToSet(tasks) : ConnectValidated(t)
  \/ \E t \in BagToSet(tasks) : ConnectResume(t)
  \/ \E id \in ConcurrentKeys : DisconnectBrokerCall(id)
  \/ \E t \in BagToSet(tasks) : DisconnectBrokerDelete(t)
  \/ DisconnectAllCall
  \/ \E t \in BagToSet(tasks) : DisconnectAllClear(t)
  \/ \E s \in SocketIds : SocketOpen(s)
  \/ \E s \in SocketIds : SocketError(s)
  \/ \E s \in SocketIds : SocketClose(s)

SpecRegistry == Init /\ [][NextRegistry]_vars

(***************************************************************************)
(* SpecErrors: BaseBroker.handleError on one error object, over every      *)
(* combination of an HTTP status, a transport code and a message.          *)
(***************************************************************************)
\* the error objects handleError is given: error.response?.status (NoStatus: no response),
\* error.code ("none": no code) and error.message ("": no message)
Causes ==
  { Err(status, code, message) :
      status \in {NoStatus, 400, 401, 429, 500, 503},
      code \in {"none", "ECONNREFUSED", "ETIMEDOUT", "ECONNABORTED", "ERR_BAD_REQUEST"},
      message \in {"", "socket hang up"} }

InitErrors ==
  /\ InitLifecycle
  /\ RestUnused
  /\ MapUnused
  /\ RowsUnused
  /\ MessagesUnused
  /\ HealthUnused
  /\ OrdersUnused
  /\ LimiterUnused
  /\ cause \in Causes
  /\ classified = [done |-> FALSE, outcome |-> Return(NoCause)]
  /\ AccountsUnused

\* a caller (an interceptor, a catch clause) hands the error object to handleError
HandleErrorCall ==
  /\ ~classified.done
  /\ classified' = [done |-> TRUE, outcome |-> Return(HandleError(cause))]
  /\ UNCHANGED <<lifecycleVars, restVars, mapVars, rowVars, cause, accountVars, msgVars, healthVars, orderVars, limiterVars>>

NextErrors == HandleErrorCall

SpecErrors == InitErrors /\ [][NextErrors]_vars

(***************************************************************************)
(* SpecAccounts: the accounts routes over the registry.  POST /api/accounts *)
(* validates the credentials of a new account on a connector it takes from *)
(* the registry, the validate and sync routes take the connector of a      *)
(* stored account, DELETE removes the account and disconnects its          *)
(* connector.                                                              *)
(***************************************************************************)
\* the (broker, apiKey) pairs of the requests: the routes pass no instance id
AccountInputs ==
  { in \in RegistryInputs : in.instanceId = NoInstanceId /\ in.brokerType \in SupportedBrokers }
\* the createBroker call of a route for the credentials of an account
AccountInput(broker, apiKey) ==
  [brokerType |-> broker, apiKey |-> apiKey, instanceId |-> NoInstanceId]
\* const instanceId = `${account.broker}_${account.id}`
DeleteKey(broker, id) == <<broker, "_">> \o id

\* this.instances.get(key) of any string
CacheGet(key) == IF key \in DOMAIN instances THEN instances[key] ELSE 0

\* BrokerFactory.createBroker(broker, {apiKey, apiSecret}) as a route calls it
RouteCreatesBroker(in) ==
  /\ CreateConstructs(in) => NextBroker <= MaxBrokers
  /\ instances' = InstancesAfterCreate(in)
  /\ brokers' = BrokersAfterCreate(in)
  /\ ev' = CreateEvent(in, CreatedBroker(in), IF CacheHas(KeyOf(in)) THEN "cached" ELSE "created")
  /\ NoteCreate(in)

RouteEvent(op, id, key, broker, apiKey, pending) ==
  [op |-> op, id |-> id, key |-> key, broker |-> broker, apiKey |-> apiKey, pending |-> pending]

\* POST /api/accounts up to `await brokerInstance.validateCredentials()`
PostAccountCall(in) ==
  /\ in \notin route.pending
  /\ RouteCreatesBroker(in)
  /\ route' = RouteEvent("post", << >>, KeyOf(in), in.brokerType, in.apiKey,
                         route.pending \cup {in})
  /\ UNCHANGED <<accounts, sockets, tasks, calls, restVars, mapVars, rowVars, errorVars,
                 msgVars, healthVars, orderVars, limiterVars>>

\* POST /api/accounts after the validation and the balance request: the account is stored
\* under a new id, or the request fails
PostAccountSettles(in) ==
  /\ in \in route.pending
  /\ \E valid \in BOOLEAN :
       IF valid /\ \E id \in AccountIds : ~accounts[id].stored
         THEN \E id \in AccountIds :
                /\ ~accounts[id].stored
                /\ accounts' = [accounts EXCEPT ![id] =
                                  [broker |-> in.brokerType, apiKey |-> in.apiKey, stored |-> TRUE]]
                /\ route' = RouteEvent("stored", id, KeyOf(in), in.brokerType, in.apiKey,
                                       route.pending \ {in})
         ELSE /\ route' = RouteEvent("refused", << >>, KeyOf(in), in.brokerType, in.apiKey,
                                     route.pending \ {in})
              /\ UNCHANGED accounts
  /\ UNCHANGED <<lifecycleVars, restVars, mapVars, rowVars, errorVars, msgVars, healthVars,
                 orderVars, limiterVars>>

\* POST /api/accounts/:id/validate and POST /api/accounts/:id/sync up to their first
\* request on the connector
AccountRouteCall(op, id) ==
  /\ accounts[id].stored
  /\ LET in == AccountInput(accounts[id].broker, accounts[id].apiKey)
     IN /\ RouteCreatesBroker(in)
        /\ route' = RouteEvent(op, id, KeyOf(in), in.brokerType, in.apiKey, route.pending)
  /\ UNCHANGED <<accounts, sockets, tasks, calls, restVars, mapVars, rowVars, errorVars,
                 msgVars, healthVars, orderVars, limiterVars>>

ValidateAccountCall(id) == AccountRouteCall("validate", id)
SyncAccountCall(id) == AccountRouteCall("sync", id)

\* DELETE /api/accounts/:id: the account is deleted, then
\* await BrokerFactory.disconnectBroker(`${account.broker}_${account.id}`), which
\* disconnects and removes the connector cached under that key, if there is one
DeleteAccountCall(id) ==
  /\ accounts[id].stored
  /\ accounts' = [accounts EXCEPT ![id] = NoAccount]
  /\ LET key == DeleteKey(accounts[id].broker, id)
     IN /\ route' = RouteEvent("delete", id, key, accounts[id].broker, accounts[id].apiKey,
                               route.pending)
        /\ IF CacheGet(key) # 0
             THEN /\ sockets' = SocketsAfterDisconnect({CacheGet(key)})
                  /\ brokers' = BrokersAfterDisconnect({CacheGet(key)})
                  /\ instances' = DeleteInstance(key)
                  /\ ev' = Event("disconnectBroker", CacheGet(key), "ok", FALSE)
                  /\ ForgetHistory
             ELSE /\ ev' = Event("disconnectBroker", 0, "ok", FALSE)
                  /\ UNCHANGED <<instances, brokers, sockets, returned, constructed>>
  /\ UNCHANGED <<tasks, calls, restVars, mapVars, rowVars, errorVars, msgVars, healthVars,
                 orderVars, limiterVars>>

NextAccounts ==
  \/ \E in \in AccountInputs : PostAccountCall(in)
  \/ \E in \in AccountInputs : PostAccountSettles(in)
  \/ \E id \in AccountIds : ValidateAccountCall(id)
  \/ \E id \in AccountIds : SyncAccountCall(id)
  \/ \E id \in AccountIds : DeleteAccountCall(id)

SpecAccounts == Init /\ [][NextAccounts]_vars

(***************************************************************************)
(* Claims about the registry and the connector lifecycle.                  *)
(***************************************************************************)

\* C1: with no registry disconnect in between, the createBroker calls that resolve to
\* one key all return the same connector instance, and calls that resolve to different
\* keys return different instances.
C1_SameKeySameInstance ==
  /\ \A k \in AllKeys : Cardinality(returned[k]) <= 1
  /\ \A k1, k2 \in AllKeys : k1 # k2 => returned[k1] \cap returned[k2] = {}

\* a second createBroker call for a key was answered from the cache while another key
\* holds an instance of its own
C1_Witness ==
  /\ ev.op = "createBroker" /\ ev.result = "cached"
  /\ \E k1, k2 \in AllKeys : k1 # k2 /\ returned[k1] # {} /\ returned[k2] # {}

\* C2: in every interleaving of createBroker / connectBroker calls, the connectors
\* constructed for a key since the last registry disconnect are exactly one, the cached
\* one, also while connectBroker calls for the key are suspended in connect().
C2_OneInstancePerKey ==
  \A k \in AllKeys :
    constructed[k] # {} => CacheHas(k) /\ constructed[k] = {instances[k]}

\* two connectBroker calls for one key are in flight, one of them inside the handshake of
\* connect(), and they hold the one instance constructed for the key
C2_Witness ==
  \E t1, t2 \in BagToSet(tasks) :
    /\ t1.op = "connectBroker" /\ t2.op = "connectBroker"
    /\ t1.pc = "handshake"
    /\ t1 # t2 \/ tasks[t1] >= 2
    /\ t1.key = t2.key /\ t1.b = t2.b
    /\ constructed[t1.key] = {t1.b}

\* the streams of connector b that are opening or open
C3_LiveStreams(b) ==
  { s \in SocketIds : sockets[s].owner = b /\ sockets[s].readyState \in {"CONNECTING", "OPEN"} }

\* C3: a connector has at most one stream that is opening or open at any time.
C3_AtMostOneLiveStream ==
  \A b \in BrokerIds : Cardinality(C3_LiveStreams(b)) <= 1

\* C4: connect() opens the stream and reaches isConnected = true only if the credential
\* validation of that call returned true.
C4_ConnectedOnlyIfValidated ==
  /\ \A t \in BagToSet(tasks) :
       t.op \in {"connect", "connectBroker"} /\ t.pc = "handshake" => t.valid
  /\ ev.op \in {"connect", "connectBroker"} /\ ev.result = "ok" => ev.valid

\* C5: when connect() has failed, getConnectionStatus() of the connector is false
\* (the first half of the claim's disconnected state; the claim also asks for the stream
\* reference to be null).
C5_FailedConnectLeavesDisconnected ==
  ev.op \in {"connect", "connectBroker"} /\ ev.result = "error"
    => ~brokers[ev.b].isConnected

(***************************************************************************)
(* Claims about the REST operations.                                       *)
(***************************************************************************)
\* a request the exchange rejected because of the credentials
C6_AuthFailure(resp) == resp.kind = "fail" /\ resp.status = 401
\* a request that failed for a reason outside the credentials: 5xx, refused, timed out
C6_InfraFailure(resp) ==
  /\ resp.kind = "fail"
  /\ resp.status >= 500 \/ resp.code \in {"ECONNREFUSED", "ETIMEDOUT", "ECONNABORTED"}

\* C6: validateCredentials returns false, without raising, when the exchange rejects the
\* credentials, and raises an error when its request fails for an infrastructure reason
\* (5xx, refused connection, timeout); it never reports such a failure as false.
C6_ValidateRaisesInfraFailures ==
  rev.op = "validateCredentials" =>
    /\ C6_AuthFailure(rev.resp) => rev.outcome.kind = "return" /\ rev.outcome.value = FALSE
    /\ C6_InfraFailure(rev.resp) => rev.outcome.kind = "throw"

\* C7: when the rate limiter denies a call of a unified REST operation, the operation
\* raises an error to its caller and the call issues no network request.
C7_DenialRaisesWithoutRequest ==
  rev.denied => rev.outcome.kind = "throw" /\ rev.sent = 0

C8_Propagating ==
  {"getAccountBalance", "getPositions", "placeOrder", "cancelOrder", "getOrderStatus"}

\* C8: when a request of getAccountBalance, getPositions, placeOrder, cancelOrder or
\* getOrderStatus fails (HTTP error status, refused connection, timeout), the operation
\* raises the error handleError classifies the failure as; it returns no normal result.
C8_FailurePropagatesClassified ==
  rev.op \in C8_Propagating /\ rev.resp.kind = "fail" =>
    /\ rev.outcome.kind = "throw"
    /\ rev.outcome.error = HandleError(ErrorOf(rev.resp))

\* cancelOrder has raised 'Broker service unavailable' for a 503, and a Delta operation has
\* raised the failure of its product lookup
C8_Witness ==
  /\ rev.op \in C8_Propagating
  /\ rev.resp.kind = "fail"
  /\ rev.outcome.kind = "throw"
  /\ \/ rev.op = "cancelOrder" /\ rev.resp.status = 503
          /\ rev.outcome.error.message = "Broker service unavailable"
     \/ exchange = "DELTA" /\ rev.op = "placeOrder" /\ rev.sent = 1
          /\ rev.resp.code = "ECONNREFUSED"

\* C9: the status of the TradeResult placeOrder returns is the normalisation of the native
\* status the acknowledgment carries, on every connector.
C9_PlacedStatusIsNormalisedAck ==
  rev.op = "placeOrder" /\ rev.outcome.kind = "return" =>
    rev.outcome.value.status = MapOrderStatus(exchange, rev.resp.native)

(***************************************************************************)
(* Claims about mapOrderStatus.                                            *)
(***************************************************************************)
Normalised == {"pending", "filled", "cancelled", "rejected"}

\* the table of native statuses the claim gives for each exchange
C10_Table(type) ==
  CASE type = "DELTA" ->
         { <<Str_open, "pending">>, <<Str_pending, "pending">>, <<Str_filled, "filled">>,
           <<Str_closed, "filled">>, <<Str_cancelled, "cancelled">>,
           <<Str_rejected, "rejected">> }
    [] type = "BINANCE" ->
         { <<Str_NEW, "pending">>, <<Str_PARTIALLY_FILLED, "pending">>,
           <<Str_FILLED, "filled">>, <<Str_CANCELED, "cancelled">>,
           <<Str_EXPIRED, "cancelled">>, <<Str_REJECTED, "rejected">> }
    [] type = "BYBIT" ->
         { <<Str_New, "pending">>, <<Str_PartiallyFilled, "pending">>,
           <<Str_Filled, "filled">>, <<Str_Cancelled, "cancelled">>,
           <<Str_Rejected, "cancelled">>, <<Str_Deactivated, "rejected">> }
    [] type = "OKX" ->
         { <<Str_live, "pending">>, <<Str_partially_filled, "pending">>,
           <<Str_filled, "filled">>, <<Str_canceled, "cancelled">>,
           <<Str_rejected, "rejected">> }
C10_Documented(type, str) == \E row \in C10_Table(type) : row[1] = str
\* the table's status for a documented string, pending for every other string
C10_TableStatus(type, str) ==
  IF C10_Documented(type, str)
    THEN (CHOOSE row \in C10_Table(type) : row[1] = str)[2]
    ELSE "pending"

\* C10 as stated: mapOrderStatus maps every documented string as the table says and every
\* other string to pending, and its result is one of the four normalised statuses.
C10_TableElsePending ==
  mapOut # "none" =>
    /\ mapOut \in Normalised
    /\ mapOut = C10_TableStatus(mapIn.exchange, mapIn.state)

\* C10: mapOrderStatus maps every documented string as the table says and its result is one
\* of the four normalised statuses; Binance, Bybit and OKX map every other string to
\* pending; Delta maps a string as the table says for its lower-case form, and to pending
\* when that form is not documented.
C10_TableUpToCaseOnDelta ==
  mapOut # "none" =>
    /\ mapOut \in Normalised
    /\ C10_Documented(mapIn.exchange, mapIn.state)
         => mapOut = C10_TableStatus(mapIn.exchange, mapIn.state)
    /\ mapOut = C10_TableStatus(mapIn.exchange,
                                IF mapIn.exchange = "DELTA" THEN ToLowerCase(mapIn.state)
                                ELSE mapIn.state)

\* Delta's mapOrderStatus was given FILLED, a string its table does not hold, and
\* returned filled
C10_Witness ==
  /\ mapIn.exchange = "DELTA"
  /\ mapIn.state = Str_FILLED
  /\ ~C10_Documented("DELTA", mapIn.state)
  /\ mapOut = "filled"

(***************************************************************************)
(* Claims about the rows of getAccountBalance and getPositions.            *)
(***************************************************************************)
C11_Returned == rowsOut.done /\ rowsIn.op = "getAccountBalance"

\* C11: every AccountBalance row getAccountBalance returns has total > 0.
C11_NoZeroBalanceRow ==
  C11_Returned => \A i \in 1..Len(rowsOut.rows) : rowsOut.rows[i].total > 0

\* C12: every AccountBalance row getAccountBalance returns has total = free + locked.
C12_TotalIsFreePlusLocked ==
  rowsOut.done /\ rowsIn.op = "getAccountBalance" =>
    \A i \in 1..Len(rowsOut.rows) :
      rowsOut.rows[i].total = rowsOut.rows[i].free + rowsOut.rows[i].locked

\* the native rows of the answer whose size is not zero, in their order
C13_Open == SelectSeq(rowsIn.rows, LAMBDA row : row.size # 0)

\* C13: every Position getPositions returns has size > 0, and the returned rows are the
\* native rows whose size is not zero: no row with a native size of zero appears.
C13_NoFlatPosition ==
  rowsOut.done /\ rowsIn.op = "getPositions" =>
    /\ \A i \in 1..Len(rowsOut.rows) : rowsOut.rows[i].size > 0
    /\ Len(rowsOut.rows) = Len(C13_Open)
    /\ \A i \in 1..Len(rowsOut.rows) : rowsOut.rows[i].size = Abs(C13_Open[i].size)

\* getPositions was given a flat row and a row with a negative signed size, and returned
\* one Position
C13_Witness ==
  /\ rowsOut.done /\ rowsIn.op = "getPositions"
  /\ \E i, j \in 1..Len(rowsIn.rows) : rowsIn.rows[i].size = 0 /\ rowsIn.rows[j].size < 0
  /\ Len(rowsOut.rows) = 1

\* the direction the native data give: the explicit side field where there is one
\* (Bybit Buy / Sell, OKX long / short), the sign of the size otherwise
C14_Direction(row) ==
  IF row.side \in {Str_Buy, Str_long} THEN Str_long
  ELSE IF row.side \in {Str_Sell, Str_short} THEN Str_short
  ELSE IF row.size > 0 THEN Str_long ELSE Str_short

\* C14: every Position getPositions returns has side long or short, the direction its
\* native row gives.
C14_SideIsLongOrShort ==
  rowsOut.done /\ rowsIn.op = "getPositions" /\ Len(rowsOut.rows) = Len(C13_Open) =>
    \A i \in 1..Len(rowsOut.rows) :
      /\ rowsOut.rows[i].side \in {Str_long, Str_short}
      /\ rowsOut.rows[i].side = C14_Direction(C13_Open[i])

(***************************************************************************)
(* Claims about the stream.                                                *)
(***************************************************************************)
\* the subscribe calls that a step suspends
C15_Suspended ==
  { t \in BagToSet(tasks') : t.op = "subscribe" /\ CopiesIn(t, tasks') > CopiesIn(t, tasks) }

\* C15: a subscribeToMarketData call that finds no open stream starts exactly one
\* handshake, a call that finds the stream open starts none and sends its frame; a
\* subscribe frame is only sent on an open stream, after the stream the call opened
\* has opened.
C15_SubscribeOpensOnceThenSends ==
  /\ [](ev.op = "subscribe" /\ ev.result = "ok" /\ ev.frame = "sent" =>
          /\ ev.sock # 0
          /\ sockets[ev.sock].readyState = "OPEN"
          /\ ev.opened # 0 => sockets[ev.opened].hs = "resolved")
  /\ [][calls' # calls =>
          /\ \A t \in C15_Suspended :
               IF StreamNotOpen(t.b)
                 THEN /\ t.pc = "handshake"
                      /\ sockets[t.sock] = NoSocket
                      /\ sockets'[t.sock].readyState = "CONNECTING"
                      /\ \A s \in SocketIds \ {t.sock} : sockets'[s] = sockets[s]
                 ELSE /\ t.pc = "lookup"
                      /\ sockets' = sockets
          /\ ev'.op = "subscribe" =>
               /\ ~StreamNotOpen(ev'.b)
               /\ sockets' = sockets
               /\ ev'.opened = 0
               /\ ev'.frame = "sent"]_vars

\* a subscribe call has opened a stream and sent its frame on it
C15_Witness ==
  /\ ev.op = "subscribe" /\ ev.result = "ok"
  /\ ev.frame = "sent"
  /\ ev.opened # 0 /\ ev.sock = ev.opened

\* C16: when a stream has emitted error or close, its connector no longer refers to it,
\* and a subscribeToMarketData call that follows finds no open stream.
C16_ErrorOrCloseClearsReference ==
  ev.op \in {"error", "close"} =>
    /\ brokers[ev.b].wsClient # ev.sock
    /\ StreamNotOpen(ev.b)

\* the streams a step opens
C17_Opened == { s \in SocketIds : sockets[s] = NoSocket /\ sockets'[s] # NoSocket }

\* C17: a stream is opened only by a step of connect() or subscribeToMarketData, which then
\* waits for its handshake; a stream event opens no stream and starts no call; a frame of
\* unsubscribeFromMarketData goes out on an open stream only; and
\* unsubscribeFromMarketData called while the stream is absent or not open returns at once,
\* leaving connectors, streams, suspended calls and the registry as they were.
C17_StreamOpenedOnlyByConnectOrSubscribe ==
  /\ [](ev.op = "unsubscribe" /\ ev.result = "ok" /\ ev.frame = "sent" =>
          ev.sock # 0 /\ sockets[ev.sock].readyState = "OPEN")
  /\ [][/\ \A s \in C17_Opened :
             \E t \in BagToSet(tasks') :
               /\ t.op \in {"connect", "connectBroker", "subscribe"}
               /\ t.pc = "handshake" /\ t.sock = s
               /\ CopiesIn(t, tasks') > CopiesIn(t, tasks)
        /\ ev'.op \in {"open", "error", "close"} /\ ev' # ev =>
             C17_Opened = {} /\ tasks' = tasks
        /\ \A t \in BagToSet(tasks') :
             t.op = "unsubscribe" /\ CopiesIn(t, tasks') > CopiesIn(t, tasks) =>
               ~StreamNotOpen(t.b)
        /\ calls' # calls /\ ev'.op = "unsubscribe" /\ StreamNotOpen(ev'.b) =>
             /\ ev'.result = "noop"
             /\ UNCHANGED <<instances, brokers, sockets, tasks>>]_vars

\* unsubscribeFromMarketData has returned at once on a connector whose stream has closed
C17_Witness ==
  /\ ev.op = "unsubscribe" /\ ev.result = "noop"
  /\ \E s \in SocketIds : sockets[s].owner = ev.b /\ sockets[s].readyState = "CLOSED"


\* C19: when a stream that was open emits error or close without the connector having
\* closed it, the connector emits an `error` event to its listeners, the registry's among them.
C19_BrokenStreamEmitsError ==
  ev.op \in {"error", "close"} /\ ev.wasOpen => "error" \in ev.emitted


\* C20: connectBroker on a key whose cached connector is connected returns that connector at
\* once: the call suspends nothing (no connect(), so no validation request and no
\* handshake) and leaves the registry, the connectors, the streams and the suspended calls
\* as they were; only a call on a connector that is not connected goes on to connect().
C20_ConnectBrokerOnConnectedIsNoOp ==
  [][calls' # calls =>
       /\ \A t \in BagToSet(tasks') :
            t.op = "connectBroker" /\ CopiesIn(t, tasks') > CopiesIn(t, tasks) =>
              ~(CacheHas(t.key) /\ brokers[instances[t.key]].isConnected)
       /\ ev'.op = "connectBroker" /\ ev'.result = "noop" =>
            /\ brokers[ev'.b].isConnected
            /\ UNCHANGED <<instances, brokers, sockets, tasks>>]_vars

\* connectBroker has returned a connector that was cached and connected
C20_Witness ==
  /\ ev.op = "connectBroker" /\ ev.result = "noop"
  /\ brokers[ev.b].isConnected
  /\ \E k \in AllKeys : instances[k] = ev.b


(***************************************************************************)
(* Claims about disconnecting, under Spec.                                 *)
(***************************************************************************)
\* the streams of connector b that are connecting or open
C21_Live(b) == { s \in SocketIds : sockets[s].owner = b /\ sockets[s].readyState \in {"CONNECTING", "OPEN"} }

\* C21: when disconnect() has returned, the connector has no stream that is connecting or
\* open, its stream reference is null and isConnected is false; disconnect() raises no
\* error; and a disconnect() that follows a disconnect() of the same connector changes
\* neither the connectors nor the streams.
C21_DisconnectIdempotent ==
  /\ [](ev.op = "disconnect" =>
          /\ ev.result = "ok"
          /\ brokers[ev.b].wsClient = 0
          /\ ~brokers[ev.b].isConnected
          /\ C21_Live(ev.b) = {})
  /\ [][calls' # calls /\ ev.op = "disconnect" /\ ev'.op = "disconnect" /\ ev'.b = ev.b =>
          UNCHANGED <<brokers, sockets>>]_vars


\* the calls of disconnectBroker a step suspends or completes
C22_Suspended == { t \in BagToSet(tasks') : t.op = "disconnectBroker" /\ CopiesIn(t, tasks') > CopiesIn(t, tasks) }
C22_Completed == { t \in BagToSet(tasks) : t.op = "disconnectBroker" /\ CopiesIn(t, tasks') < CopiesIn(t, tasks) }

C23_Suspended == { t \in BagToSet(tasks') : t.op = "disconnectAllBrokers" /\ CopiesIn(t, tasks') > CopiesIn(t, tasks) }
C23_Completed == { t \in BagToSet(tasks) : t.op = "disconnectAllBrokers" /\ CopiesIn(t, tasks') < CopiesIn(t, tasks) }

\* C23: disconnectAllBrokers runs disconnect() on every cached connector (the stream each
\* refers to is closed, the reference null, isConnected false), whatever the state of the
\* others; when it completes the cache is empty; and it never raises an error.
C23_DisconnectAllEmptiesCache ==
  [][/\ C23_Suspended # {} =>
          \A b \in Cached :
            /\ brokers'[b].wsClient = 0
            /\ ~brokers'[b].isConnected
            /\ brokers[b].wsClient # 0 =>
                 sockets'[brokers[b].wsClient].readyState \notin {"CONNECTING", "OPEN"}
     /\ C23_Completed # {} =>
          /\ \A k \in AllKeys : ~CacheHas(k)'
          /\ ev' = Event("disconnectAllBrokers", 0, "ok", FALSE)
     /\ ev'.op = "disconnectAllBrokers" => ev'.result = "ok" /\ C23_Completed # {}]_vars

\* disconnectAllBrokers has completed after disconnecting two cached connectors, one of
\* which had a stream
C23_Witness ==
  /\ ev.op = "disconnectAllBrokers"
  /\ \A k \in AllKeys : ~CacheHas(k)
  /\ Cardinality(Allocated) = 2
  /\ \A b \in Allocated : brokers[b].wsClient = 0 /\ ~brokers[b].isConnected
  /\ \E s \in SocketIds : sockets[s].readyState \in {"CLOSING", "CLOSED"}


\* C25: createBroker with an exchange type outside {DELTA, BINANCE, BYBIT, OKX} raises the
\* unsupported-type error, whatever the credentials and the instance id, and leaves the
\* cache as it was.
C25_UnsupportedTypeFails ==
  /\ [](ev.op = "createBroker" /\ ev.brokerType \notin SupportedBrokers =>
          ev.result = "unsupported")
  /\ [][calls' # calls /\ ev'.op = "createBroker" /\ ev'.brokerType \notin SupportedBrokers =>
          instances' = instances]_vars


\* C32: the connector createBroker returns is a connector of the exchange type the call
\* asked for, also when the key of the call was cached by an earlier call.
C32_ReturnsRequestedType ==
  ev.op = "createBroker" /\ ev.b # 0 => brokers[ev.b].type = ev.brokerType

\* C33: the connector createBroker returns for a call without an instance id holds, and so
\* signs its requests with, the credentials of that call: calls with different API keys
\* for one exchange type never get the same connector.
C33_ReturnsOwnCredentials ==
  ev.op = "createBroker" /\ ev.b # 0 /\ ev.instanceId = NoInstanceId =>
    brokers[ev.b].apiKey = ev.apiKey


\* C34: the close event of a stream its connector no longer refers to (closed by
\* disconnect(), or replaced by a later handshake) leaves the connector's stream reference
\* as it is.
C34_LateCloseKeepsReference ==
  [][\A s \in SocketIds :
       /\ sockets[s].readyState # "CLOSED" /\ sockets'[s].readyState = "CLOSED"
       /\ brokers[sockets[s].owner].wsClient # s
       => brokers'[sockets[s].owner].wsClient = brokers[sockets[s].owner].wsClient]_vars

\* C35: a connector that reports itself connected holds a reference to an open stream.
C35_ConnectedHasOpenStream ==
  \A b \in Allocated :
    GetConnectionStatus(brokers, b) =>
      brokers[b].wsClient # 0 /\ sockets[brokers[b].wsClient].readyState = "OPEN"

\* C39: when subscribeToMarketData resolves without error, its subscribe frame has been
\* sent on the connector's stream.
C39_ResolvedSubscribeHasSent ==
  ev.op = "subscribe" /\ ev.result = "ok" => ev.frame = "sent"


\* C36: with registry operations only, once no call is in flight every connector that is
\* connected or holds a stream reference is in the cache of the registry.
C36_ConnectedIsCached ==
  tasks = EmptyBag =>
    \A b \in Allocated :
      GetConnectionStatus(brokers, b) \/ brokers[b].wsClient # 0 => b \in Cached


\* a connect() or subscribeToMarketData() call that started the handshake of stream s has
\* not completed
C37_Waiting(s) ==
  \E t \in BagToSet(tasks) : t.op \in {"connect", "connectBroker", "subscribe"} /\ t.sock = s
\* the handshake of stream s has ended in open, error or close, or the stream was closed
\* by disconnect() during the handshake
C37_Ended(s) ==
  sockets[s].hs # "pending" \/ sockets[s].readyState \in {"CLOSING", "CLOSED"}

C27_ClientTimeoutIsRequestTimeout ==
  rev.resp.kind = "fail" /\ rev.resp.code = "ECONNABORTED" /\ rev.op # "validateCredentials" =>
    rev.outcome.kind = "throw" /\ rev.outcome.error.message = "Request timeout"

(***************************************************************************)
(* Claims about the stream's messages, under SpecMessages.                 *)
(***************************************************************************)
\* the ticker-channel shape of each exchange
C18_TickerShape(type, message) ==
  /\ message.t = "object"
  /\ CASE type = "DELTA" -> message.type = JsString(Str_ticker) /\ Truthy(message.symbol)
       [] type = "BINANCE" -> message.e = JsString(Str_24hrTicker)
       [] type = "BYBIT" -> /\ message.topic.t = "string"
                            /\ StartsWith(message.topic.s, Str_tickersDot)
                            /\ Truthy(message.data)
       [] type = "OKX" -> /\ message.arg.t = "object"
                          /\ message.channel = JsString(Str_tickers)
                          /\ Truthy(message.data)
\* the complete ticker of each exchange
C18_Ticker(type) ==
  CASE type = "DELTA" -> [EmptyObject EXCEPT !.type = JsString(Str_ticker), !.symbol = JsString(Str_BTC)]
    [] type = "BINANCE" -> [EmptyObject EXCEPT !.e = JsString(Str_24hrTicker)]
    [] type = "BYBIT" -> [EmptyObject EXCEPT !.topic = JsString(Str_tickersBTC), !.data = JsObject]
    [] type = "OKX" -> [EmptyObject EXCEPT !.arg = JsObject, !.channel = JsString(Str_tickers),
                                           !.data = JsArray(1)]

\* C18: every marketData event belongs to one received message that parsed as JSON and has
\* the exchange's ticker shape; no message has two events and the events come in the order
\* of their messages; and every complete ticker received has its event, whatever malformed
\* or non-ticker messages were received before it.
C18_AtMostOneEventPerTickerInOrder ==
  /\ \A j \in 1..Len(emitted) :
       /\ emitted[j] \in 1..Len(received)
       /\ received[emitted[j]].wellFormed
       /\ C18_TickerShape(stream, received[emitted[j]].json)
  /\ \A j, k \in 1..Len(emitted) : j < k => emitted[j] < emitted[k]
  /\ \A i \in 1..Len(received) :
       received[i] = Text(TRUE, C18_Ticker(stream)) => \E j \in 1..Len(emitted) : emitted[j] = i

\* a malformed text, then a message that is not a ticker, then a ticker: one event, the third's
C18_Witness ==
  /\ Len(received) = 3
  /\ ~received[1].wellFormed
  /\ received[2].wellFormed /\ ~C18_TickerShape(stream, received[2].json)
  /\ emitted = <<3>>

(***************************************************************************)
(* Claims about healthCheckAll, under SpecHealth.                          *)
(***************************************************************************)
\* C24: the result of healthCheckAll has exactly one boolean for each key that was cached
\* when it was called; the probe of a key sets its own key only, to false when
\* validateCredentials returned false or threw; and no probe makes the call fail: once
\* every probe has settled the call returns.
C24_OneBooleanPerCachedKey ==
  /\ [](probes.pc = "returned" =>
          /\ DOMAIN healthChecks = DOMAIN probes.entries
          /\ \A k \in DOMAIN healthChecks : healthChecks[k] \in BOOLEAN)
  /\ [](probes.last.key # << >> =>
          /\ probes.last.key \in DOMAIN healthChecks
          /\ probes.pc = "probing" /\ probes.last.key \notin probes.pending =>
               healthChecks[probes.last.key] =
                 (probes.last.outcome.kind = "return" /\ probes.last.outcome.value = TRUE))
  /\ [][\A k \in DOMAIN healthChecks :
          k \in DOMAIN healthChecks' /\ probes'.pc # "idle" /\ k # probes'.last.key =>
            healthChecks'[k] = healthChecks[k]]_vars
  /\ [][probes.pc = "probing" /\ probes'.pc # "probing" => probes'.pc = "returned"]_vars

\* healthCheckAll has returned for two keys: the probe of one failed, the other is healthy
C24_Witness ==
  /\ probes.pc = "returned"
  /\ Cardinality(DOMAIN healthChecks) = 2
  /\ \E k \in DOMAIN healthChecks : healthChecks[k]
  /\ \E k \in DOMAIN healthChecks : ~healthChecks[k]

\* C38: a probe of healthCheckAll reports true for its connector whenever the exchange
\* accepts the credentials when the probe settles, however many probes were made on the
\* connector before in the same rate-limit window.
C38_HealthyWhenAccepted ==
  /\ probes.last.key # << >>
  /\ probes.last.resp.kind = "ok" /\ probes.last.resp.flag
  => healthChecks[probes.last.key] = TRUE

(***************************************************************************)
(* Claims about the accounts routes, under SpecAccounts.                   *)
(***************************************************************************)
\* the key under which the routes cache the connector of an account
C40_CreateKey(broker, apiKey) == KeyOf(AccountInput(broker, apiKey))
\* another account or a suspended POST request uses the connector of the key
C40_Shared(key) ==
  \/ \E id \in AccountIds :
       accounts[id].stored /\ C40_CreateKey(accounts[id].broker, accounts[id].apiKey) = key
  \/ \E in \in route.pending : KeyOf(in) = key

\* C40: when the delete route has deleted an account, the key it passed to disconnectBroker
\* is the key under which the create, validate and sync routes cached the connector of the
\* account, and that connector is no longer cached (unless another account shares it).
C40_DeleteRemovesConnector ==
  route.op = "delete" =>
    /\ route.key = C40_CreateKey(route.broker, route.apiKey)
    /\ ~C40_Shared(C40_CreateKey(route.broker, route.apiKey)) =>
         ~CacheHas(C40_CreateKey(route.broker, route.apiKey))

(***************************************************************************)
(* Claims about submitted orders, under SpecOrders.                        *)
(***************************************************************************)
\* C26: the parameters placeOrder submits for a limit order hold a price.
C26_LimitOrderHasPrice ==
  orderData.done /\ orderData.type = "limit" => orderData.price # Undefined

(***************************************************************************)
(* Claims about checkRateLimit, under SpecLimiter.                         *)
(***************************************************************************)
\* C28: a checkRateLimit call returns true exactly if it is among the first N calls made
\* for its endpoint in its window, N being the limit: the (N+1)-th and later calls of a
\* window return false, and the first call of the following window returns true again.
C28_AdmitsExactlyFirstN ==
  check.endpoint # "none" => (check.admitted <=> check.nth <= check.limit)

\* the example: the eleventh call for 'order' in a window with N = 10 is refused after ten
\* admitted calls
C28_Witness ==
  /\ check.endpoint = "order" /\ check.limit = 10
  /\ check.nth = 11 /\ ~check.admitted
  /\ check.window = 1

\* C29: a refused checkRateLimit call leaves the limiter map as it was, and no counter of
\* the map exceeds the limit of the endpoint of its key.
C29_RefusedLeavesLimiter ==
  /\ [](\A e \in DOMAIN limits : \A k \in DOMAIN limiter :
          SubSeq(k, 1, Len(k) - 1) = Parts(e) => limiter[k] <= limits[e])
  /\ [][asked' # asked /\ ~check'.admitted => limiter' = limiter]_vars

\* a call has been refused while the counter of its key stands at the limit
C29_Witness ==
  /\ check.fresh /\ ~check.admitted
  /\ \E k \in DOMAIN limiter : limiter[k] = check.limit /\ SubSeq(k, 1, Len(k) - 1) = Parts(check.endpoint)

\* C30: right after a checkRateLimit call made in window w the limiter map holds no key of
\* a window older than w, and never more keys than endpoints.
C30_StaleKeysPurged ==
  /\ check.fresh =>
       \A k \in DOMAIN limiter : ParseInt(k[Len(k)]).n >= check.window
  /\ Cardinality(DOMAIN limiter) <= Cardinality(DOMAIN limits)

(***************************************************************************)
(* Claims about handleError, under SpecErrors.                             *)
(***************************************************************************)
\* the message the claim's priority list gives for an error object
C31_Message(error) ==
  CASE error.status = 401 -> "Invalid API credentials"
    [] error.status = 429 -> "Rate limit exceeded"
    [] error.status \notin {401, 429} /\ error.status >= 500 -> "Broker service unavailable"
    [] error.status \notin {401, 429} /\ error.status < 500 /\ error.code = "ECONNREFUSED" ->
         "Connection refused by broker"
    [] error.status \notin {401, 429} /\ error.status < 500 /\ error.code = "ETIMEDOUT" ->
         "Request timeout"
    [] OTHER -> IF error.message = "" THEN "Unknown broker error" ELSE error.message

\* C31: handleError returns, and never throws, for every error object; the error it returns
\* is a new Error without response or code whose message is given by the first signal that
\* applies: HTTP 401, HTTP 429, HTTP status >= 500, code ECONNREFUSED, code ETIMEDOUT, and
\* otherwise the message of the error object, or 'Unknown broker error' when it has none.
C31_ClassifiesByPriority ==
  classified.done =>
    /\ classified.outcome.kind = "return"
    /\ classified.outcome.value = NewError(C31_Message(cause))

\* handleError was given a 503 that also carries the code ECONNREFUSED and returned the
\* service-unavailable error
C31_Witness ==
  /\ classified.done
  /\ cause.status = 503 /\ cause.code = "ECONNREFUSED"
  /\ classified.outcome.value.message = "Broker service unavailable"

====
